---- MODULE Spec2Model ----
(***************************************************************************)
(* UiPath-Analyser: a model of the two analysers of the repository.        *)
(*                                                                         *)
(*   workflow_analyzer_module.py  XAMLParser, JSONConfigParser,            *)
(*                                WorkflowAnalyzer, analyze_workflow       *)
(*   main.py                      UiPathXAMLAnalyzer                       *)
(*   app.py                       generate_json_report                     *)
(*                                                                         *)
(* A workflow document is an ElementTree: a sequence of elements in        *)
(* document order (the order of Element.iter()), each with the index of    *)
(* its parent (0 for the root), its tag as ElementTree spells it           *)
(* ("{uri}Local", or "Local" for an element in no namespace), its          *)
(* attributes in file order and its text.  Strings are TLA+ strings and    *)
(* the string tests of the code (startswith, in, split, regular            *)
(* expressions) are computed character by character.  The Turkish texts    *)
(* of the code are written without diacritics.                             *)
(***************************************************************************)
EXTENDS Integers, Sequences, FiniteSets, TLC

VARIABLES
    xamlFile,      \* the workflow file on disk: [wellFormed, nsDecls, elems]
    jsonFile,      \* the metadata sidecar: [path, kind, value]
    argv,          \* the command line of analyze_workflow.py: [xamlExists, jsonGiven, output]
    pc,            \* position of the running program
    raw_content,   \* XAMLParser.raw_content
    root,          \* XAMLParser.root / UiPathXAMLAnalyzer.root (None or the tree)
    config,        \* JSONConfigParser.config
    analysis,      \* WorkflowAnalyzer.analysis (None or a WorkflowAnalysis)
    namespaces,    \* UiPathXAMLAnalyzer.namespaces: sequence of <<prefix, uri>>
    issues,        \* UiPathXAMLAnalyzer.issues
    urls,          \* UiPathXAMLAnalyzer.urls
    db_connections,   \* UiPathXAMLAnalyzer.db_connections
    used_activities,  \* UiPathXAMLAnalyzer.used_activities
    report,        \* the dictionary generate_json_report renders
    observed       \* the issue lists the caller read after each call of analyze()

vars == <<xamlFile, jsonFile, argv, pc, raw_content, root, config, analysis,
          namespaces, issues, urls, db_connections, used_activities, report, observed>>

\* The files on disk and the command line, which no program writes.
files == <<xamlFile, jsonFile, argv>>

\* The state of a UiPathXAMLAnalyzer besides its root.
analyzerSets == <<namespaces, issues, urls, db_connections, used_activities>>

\* Python's None, for a reference that holds an object or nothing.
None == <<>>

-----------------------------------------------------------------------------
(* Strings *)

StartsWith(s, p) == Len(s) >= Len(p) /\ SubSeq(s, 1, Len(p)) = p

EndsWith(s, p) == Len(s) >= Len(p) /\ SubSeq(s, Len(s) - Len(p) + 1, Len(s)) = p

\* Python's  p in s
Contains(s, p) == \E i \in 1..(Len(s) - Len(p) + 1) : SubSeq(s, i, i + Len(p) - 1) = p

CharAt(s, i) == SubSeq(s, i, i)

Max(a, b) == IF a >= b THEN a ELSE b

-----------------------------------------------------------------------------
(* workflow_analyzer_module.py: the data classes *)

Severities == {"Critical", "High", "Medium", "Low"}

Issue(severity, category, title, description, location, solution) ==
    [severity |-> severity, category |-> category, title |-> title,
     description |-> description, location |-> location, solution |-> solution]

Activity(name, type, purpose) ==
    [name |-> name, type |-> type, purpose |-> purpose,
     inputs |-> <<>>, outputs |-> <<>>, is_error_handled |-> FALSE]

\* WorkflowAnalysis(workflow_name, workflow_purpose), the other fields at
\* their defaults.  urls and components are written sorted(list(set)) in the
\* code: the sorted list of a set is determined by the set, and is a set here.
WorkflowAnalysis(workflow_name, workflow_purpose) ==
    [workflow_name |-> workflow_name, workflow_purpose |-> workflow_purpose,
     activities |-> <<>>, variables |-> <<>>, issues |-> <<>>,
     recommendations |-> <<>>, dependencies |-> [type |-> "object", members |-> <<>>, text |-> "", number |-> 0],
     overall_health_score |-> 0, urls |-> {}, components |-> {},
     prose_summary |-> ""]

-----------------------------------------------------------------------------
(* WorkflowAnalyzer._calculate_health_score *)

FullScore == 100
HighPenalty == 15
MediumPenalty == 10

\* The loop of _calculate_health_score over the first n issues.
RECURSIVE ScoreAfter(_, _)
ScoreAfter(iss, n) ==
    IF n = 0 THEN FullScore
    ELSE LET score == ScoreAfter(iss, n - 1)
         IN  IF iss[n].severity = "High" THEN score - HighPenalty
             ELSE IF iss[n].severity = "Medium" THEN score - MediumPenalty
             ELSE score

\* A scorer that forgets the floor at 0.
CalculateHealthScore_NoFloor(iss) == ScoreAfter(iss, Len(iss))

\* A scorer that also charges Critical issues.
RECURSIVE ScoreAfter_Critical(_, _)
ScoreAfter_Critical(iss, n) ==
    IF n = 0 THEN FullScore
    ELSE LET score == ScoreAfter_Critical(iss, n - 1)
         IN  IF iss[n].severity \in {"High", "Critical"} THEN score - HighPenalty
             ELSE IF iss[n].severity = "Medium" THEN score - MediumPenalty
             ELSE score

CalculateHealthScore_Critical(iss) == Max(0, ScoreAfter_Critical(iss, Len(iss)))

CalculateHealthScore(iss) == Max(0, ScoreAfter(iss, Len(iss)))

\* analyze(): self.analysis.overall_health_score = self._calculate_health_score()
CalculateHealthScoreStep ==
    /\ pc = "a_recommended"
    /\ analysis' = [analysis EXCEPT !.overall_health_score = CalculateHealthScore(analysis.issues)]
    /\ pc' = "a_done"
    /\ UNCHANGED <<files, observed, raw_content, root, config, analyzerSets, report>>

-----------------------------------------------------------------------------
(* The scorer on arbitrary issue lists *)

MaxIssues == 7

NoXaml == [wellFormed |-> FALSE, nsDecls |-> <<>>, elems |-> <<>>]
NoJson == [path |-> FALSE, kind |-> "none", value |-> <<>>]
NoArgv == [xamlExists |-> FALSE, jsonGiven |-> FALSE, output |-> FALSE]

AnyIssue(severity) == Issue(severity, "Any", "Any", "", "", "")

InitScore ==
    /\ argv = NoArgv
    /\ xamlFile = NoXaml
    /\ jsonFile = NoJson
    /\ pc = "a_issues"
    /\ raw_content = ""
    /\ root = None
    /\ config = [type |-> "object", members |-> <<>>, text |-> "", number |-> 0]
    /\ analysis = WorkflowAnalysis("Unknown", "")
    /\ namespaces = <<>>
    /\ issues = <<>>
    /\ urls = {}
    /\ db_connections = {}
    /\ used_activities = {}
    /\ report = None
    /\ observed = <<>>

\* The issue list of the analysis grows by one issue of any severity.
AppendIssue ==
    /\ pc = "a_issues"
    /\ Len(analysis.issues) < MaxIssues
    /\ \E severity \in Severities :
          analysis' = [analysis EXCEPT !.issues = Append(@, AnyIssue(severity))]
    /\ UNCHANGED <<files, observed, pc, raw_content, root, config, analyzerSets, report>>

\* The list is complete: analyze() goes on to the scorer.
IssuesDone ==
    /\ pc = "a_issues"
    /\ pc' = "a_recommended"
    /\ UNCHANGED <<files, observed, raw_content, root, config, analysis, analyzerSets, report>>

NextScore == AppendIssue \/ IssuesDone \/ CalculateHealthScoreStep

SpecScore == InitScore /\ [][NextScore]_vars

CountSeverity(iss, severity) == Cardinality({i \in 1..Len(iss) : iss[i].severity = severity})

IsScored(severity) == severity \in {"High", "Medium"}

\* C1: the health score is in [0, 100], and it is exactly 100 whenever the
\* issue list holds no High and no Medium issue.
C1_ScoreRange ==
    pc = "a_done" =>
        /\ analysis.overall_health_score >= 0
        /\ analysis.overall_health_score <= 100
        /\ (\A i \in 1..Len(analysis.issues) : ~IsScored(analysis.issues[i].severity))
              => analysis.overall_health_score = 100

\* C1 witness: a scored list of seven High issues, whose penalties exceed 100.
C1_Witness ==
    /\ pc = "a_done"
    /\ CountSeverity(analysis.issues, "High") = 7
    /\ analysis.overall_health_score = 0

\* C2: the health score is max(0, 100 - 15h - 10m) for h High and m Medium
\* issues, and the Critical and Low issues of the list do not change it: the
\* list without them has the same score.
C2_ScoreFormula ==
    pc = "a_done" =>
        LET h == CountSeverity(analysis.issues, "High")
            m == CountSeverity(analysis.issues, "Medium")
            scored(i) == IsScored(i.severity)
        IN  /\ analysis.overall_health_score = Max(0, 100 - 15 * h - 10 * m)
            /\ analysis.overall_health_score
                  = CalculateHealthScore(SelectSeq(analysis.issues, scored))

\* C2 witness: a scored list mixing all four severities.
C2_Witness ==
    /\ pc = "a_done"
    /\ \A severity \in Severities : CountSeverity(analysis.issues, severity) >= 1
    /\ analysis.overall_health_score = 60

-----------------------------------------------------------------------------
(* xml.etree.ElementTree: elements, attributes, iteration and paths *)

Elem(parent, tag, attrib, text) ==
    [parent |-> parent, tag |-> tag, attrib |-> attrib, text |-> text]

\* The tag ElementTree gives an element of namespace uri ("" for none).
QTag(uri, local) == IF uri = "" THEN local ELSE "{" \o uri \o "}" \o local

\* key in elem.attrib
HasAttr(e, key) == \E i \in 1..Len(e.attrib) : e.attrib[i][1] = key

\* elem.get(key, default)
Get(e, key, default) ==
    IF HasAttr(e, key)
    THEN e.attrib[CHOOSE i \in 1..Len(e.attrib) : e.attrib[i][1] = key][2]
    ELSE default

Indices(n) == [k \in 1..n |-> k]

\* list(elem): the children of element i, in document order.
ChildrenOf(t, i) ==
    LET isChild(j) == t[j].parent = i
    IN  SelectSeq(Indices(Len(t)), isChild)

RECURSIVE IsDescendant(_, _, _)
IsDescendant(t, a, j) ==
    /\ j > a
    /\ t[j].parent # 0
    /\ (t[j].parent = a \/ IsDescendant(t, a, t[j].parent))

\* elem.iter(): element i and its descendants, in document order.
Iter(t, i) ==
    LET inSubtree(j) == j = i \/ IsDescendant(t, i, j)
    IN  SelectSeq(Indices(Len(t)), inSubtree)

\* The truth value of an Element is that of len(elem): an element without
\* children is false, like None.
Truthy(t) == t # None /\ Len(ChildrenOf(t, 1)) > 0

\* ElementPath's "{*}name": the tag name in any namespace or in none.
MatchesAnyNamespace(tag, name) == tag = name \/ EndsWith(tag, "}" \o name)

\* elem.findall(".//" + tag): the descendants of i with that tag.
FindAllBelow(t, i, tag) ==
    LET hit(j) == IsDescendant(t, i, j) /\ t[j].tag = tag
    IN  SelectSeq(Indices(Len(t)), hit)

\* elem.findall(".//{*}" + name)
FindAllBelowAnyNs(t, i, name) ==
    LET hit(j) == IsDescendant(t, i, j) /\ MatchesAnyNamespace(t[j].tag, name)
    IN  SelectSeq(Indices(Len(t)), hit)

\* elem.find("{*}" + name): the first child of that name, 0 for None.
FindChildAnyNs(t, i, name) ==
    LET hit(j) == t[j].parent = i /\ MatchesAnyNamespace(t[j].tag, name)
        hits == SelectSeq(Indices(Len(t)), hit)
    IN  IF hits = <<>> THEN 0 ELSE hits[1]

\* tag.split('}')[-1] if '}' in tag else tag
LocalName(tag) ==
    IF ~Contains(tag, "}") THEN tag
    ELSE LET last == CHOOSE i \in 1..Len(tag) :
                        /\ CharAt(tag, i) = "}"
                        /\ \A k \in (i + 1)..Len(tag) : CharAt(tag, k) # "}"
         IN  SubSeq(tag, last + 1, Len(tag))

-----------------------------------------------------------------------------
(* The workflow file: its text *)

NsActivities == "http://schemas.microsoft.com/netfx/2009/xaml/activities"
NsXaml == "http://schemas.microsoft.com/winfx/2006/xaml"
NsUi == "http://schemas.uipath.com/workflow/activities"

\* The name a tag or attribute key has in the file: prefix:Local for a
\* declared prefix, Local in the default namespace or in none.
FileName(nsDecls, qname) ==
    IF ~StartsWith(qname, "{") THEN qname
    ELSE LET d == CHOOSE k \in 1..Len(nsDecls) : StartsWith(qname, "{" \o nsDecls[k][2] \o "}")
             prefix == nsDecls[d][1]
         IN  IF prefix = "" THEN LocalName(qname) ELSE prefix \o ":" \o LocalName(qname)

RECURSIVE XmlnsText(_, _)
XmlnsText(nsDecls, n) ==
    IF n = 0 THEN ""
    ELSE XmlnsText(nsDecls, n - 1)
         \o (IF nsDecls[n][1] = "" THEN " xmlns" ELSE " xmlns:" \o nsDecls[n][1])
         \o "=\"" \o nsDecls[n][2] \o "\""

RECURSIVE AttribText(_, _, _)
AttribText(nsDecls, attrib, n) ==
    IF n = 0 THEN ""
    ELSE AttribText(nsDecls, attrib, n - 1)
         \o " " \o FileName(nsDecls, attrib[n][1]) \o "=\"" \o attrib[n][2] \o "\""

RECURSIVE ElementText(_, _), ChildrenText(_, _, _)
ElementText(f, i) ==
    LET e == f.elems[i]
        name == FileName(f.nsDecls, e.tag)
        kids == ChildrenOf(f.elems, i)
        open == "<" \o name
                \o (IF i = 1 THEN XmlnsText(f.nsDecls, Len(f.nsDecls)) ELSE "")
                \o AttribText(f.nsDecls, e.attrib, Len(e.attrib))
    IN  IF kids = <<>> /\ e.text = "" THEN open \o " />"
        ELSE open \o ">" \o e.text \o ChildrenText(f, kids, Len(kids)) \o "</" \o name \o ">"
ChildrenText(f, kids, n) ==
    IF n = 0 THEN "" ELSE ChildrenText(f, kids, n - 1) \o ElementText(f, kids[n])

\* What open(path).read() returns: the document as written, or, for a file
\* that is not well-formed, a text that ends inside its root element.
FileText(f) == IF f.wellFormed THEN ElementText(f, 1) ELSE "<Activity>"

-----------------------------------------------------------------------------
(* XAMLParser *)

\* A parse whose failure is not reported to analyze_workflow.
XamlParse_Continues ==
    /\ pc = "a_start"
    /\ raw_content' = FileText(xamlFile)
    /\ root' = IF xamlFile.wellFormed THEN xamlFile.elems ELSE root
    /\ pc' = "a_parsed"
    /\ UNCHANGED <<files, observed, config, analysis, analyzerSets, report>>

\* XAMLParser.parse: the text is kept even when ET.fromstring raises.
XamlParse ==
    /\ pc = "a_start"
    /\ raw_content' = FileText(xamlFile)
    /\ IF xamlFile.wellFormed
       THEN root' = xamlFile.elems /\ pc' = "a_parsed"
       ELSE root' = root /\ pc' = "a_raised"
    /\ UNCHANGED <<files, observed, config, analysis, analyzerSets, report>>

ActivityTags ==
    {"Sequence", "Flowchart", "ForEachRow", "If", "While",
     "NClick", "NTypeInto", "NGetText", "ReadRange", "WriteCell",
     "ExcelApplicationCard", "ExcelProcessScope", "SaveExcelFile",
     "TryCatch", "LogMessage", "OpenBrowser", "AttachBrowser"}

IsActivityTag(tag) == tag \in ActivityTags

\* An extractor without the truth test of the root.
GetActivities_NoRootTest(t) ==
    LET listed(j) == IsActivityTag(LocalName(t[j].tag))
        found == SelectSeq(Iter(t, 1), listed)
    IN  [k \in 1..Len(found) |->
            [type |-> LocalName(t[found[k]].tag),
             name |-> Get(t[found[k]], "DisplayName", "Unknown"),
             attributes |-> t[found[k]].attrib]]

\* XAMLParser.get_activities
GetActivities(t) ==
    IF ~Truthy(t) THEN <<>>
    ELSE LET listed(j) == IsActivityTag(LocalName(t[j].tag))
             found == SelectSeq(Iter(t, 1), listed)
         IN  [k \in 1..Len(found) |->
                 [type |-> LocalName(t[found[k]].tag),
                  name |-> Get(t[found[k]], "DisplayName", "Unknown"),
                  attributes |-> t[found[k]].attrib]]

\* XAMLParser.get_variables: a sequence of <<name, var_type>>
GetVariables(t) ==
    IF ~Truthy(t) THEN <<>>
    ELSE LET isVar(j) == Contains(t[j].tag, "Variable")
             found == SelectSeq(Iter(t, 1), isVar)
         IN  [k \in 1..Len(found) |->
                 <<Get(t[found[k]], "Name", "Unknown"),
                   Get(t[found[k]], QTag(NsXaml, "TypeArguments"), "Unknown")>>]

IsHttp(s) == StartsWith(s, "http://") \/ StartsWith(s, "https://")

UrlAttributes == {"Url", "Uri", "Endpoint"}

\* Every (key, value) of every element's attrib, over root.iter().
AttribItems(t) == UNION {{t[j].attrib[a] : a \in 1..Len(t[j].attrib)} : j \in 1..Len(t)}

\* XAMLParser.get_urls
GetUrls(t) ==
    IF ~Truthy(t) THEN {}
    ELSE LET byName == {item[2] : item \in {it \in AttribItems(t) :
                                              /\ \E u \in UrlAttributes : Contains(it[1], u)
                                              /\ IsHttp(it[2])}}
             byValue == {item[2] : item \in {it \in AttribItems(t) : IsHttp(it[2])}}
             strings == {t[j].text : j \in {j \in 1..Len(t) :
                                              /\ t[j].tag = QTag(NsXaml, "String")
                                              /\ t[j].text # ""
                                              /\ IsHttp(t[j].text)}}
         IN  byName \cup byValue \cup strings

-----------------------------------------------------------------------------
(* JSONConfigParser *)

\* A JSON value as json.load returns it: an object is a sequence of
\* <<key, value>> members, an array a sequence of items.
JsonValue(type, members, text, number) ==
    [type |-> type, members |-> members, text |-> text, number |-> number]
JsonObject(members) == JsonValue("object", members, "", 0)
JsonArray(items) == JsonValue("array", items, "", 0)
JsonString(str) == JsonValue("string", <<>>, str, 0)
JsonNumber(n) == JsonValue("number", <<>>, "", n)
JsonNull == JsonValue("null", <<>>, "", 0)

\* bool(value)
JsonTruthy(v) ==
    CASE v.type = "number" -> v.number # 0
      [] v.type = "null" -> FALSE
      [] v.type = "string" -> v.text # ""
      [] OTHER -> Len(v.members) > 0

HasKey(obj, key) == \E i \in 1..Len(obj.members) : obj.members[i][1] = key

\* dict.get(key, default)
DictGet(obj, key, default) ==
    IF HasKey(obj, key)
    THEN obj.members[CHOOSE i \in 1..Len(obj.members) : obj.members[i][1] = key][2]
    ELSE default

\* A parser that lets the decode error of a malformed file escape.
JsonParseResult_Raises(f) ==
    IF ~f.path THEN [raised |-> FALSE, ok |-> TRUE, config |-> JsonObject(<<>>)]
    ELSE CASE f.kind = "missing" -> [raised |-> FALSE, ok |-> TRUE, config |-> JsonObject(<<>>)]
           [] f.kind = "malformed" -> [raised |-> TRUE, ok |-> FALSE, config |-> JsonObject(<<>>)]
           [] f.kind = "unreadable" -> [raised |-> FALSE, ok |-> FALSE, config |-> JsonObject(<<>>)]
           [] OTHER -> [raised |-> FALSE, ok |-> TRUE, config |-> f.value]

\* JSONConfigParser.parse, from self.config = {}: what it returns and the
\* config it leaves.  It raises in no case: FileNotFoundError and
\* JSONDecodeError return True, any other exception returns False.
JsonParseResult(f) ==
    IF ~f.path THEN [raised |-> FALSE, ok |-> TRUE, config |-> JsonObject(<<>>)]
    ELSE CASE f.kind = "missing" -> [raised |-> FALSE, ok |-> TRUE, config |-> JsonObject(<<>>)]
           [] f.kind = "malformed" -> [raised |-> FALSE, ok |-> TRUE, config |-> JsonObject(<<>>)]
           [] f.kind = "unreadable" -> [raised |-> FALSE, ok |-> FALSE, config |-> JsonObject(<<>>)]
           [] OTHER -> [raised |-> FALSE, ok |-> TRUE, config |-> f.value]

\* json_parser.parse(); the caller does not look at the result.
JsonParse ==
    /\ pc = "a_parsed"
    /\ config' = JsonParseResult(jsonFile).config
    /\ pc' = IF JsonParseResult(jsonFile).raised THEN "a_raised" ELSE "a_json"
    /\ UNCHANGED <<files, observed, raw_content, root, analysis, analyzerSets, report>>

\* config.get(...) raises AttributeError on a value that is not a dict.
GetRaises(cfg) == JsonTruthy(cfg) /\ cfg.type # "object"

\* JSONConfigParser.get_project_info, where it does not raise
GetProjectInfo(cfg) ==
    IF ~JsonTruthy(cfg) THEN JsonObject(<<>>)
    ELSE JsonObject(<< <<"name", DictGet(cfg, "name", JsonString("Unknown"))>>,
                       <<"description", DictGet(cfg, "description", JsonString(""))>>,
                       <<"version", DictGet(cfg, "projectVersion", JsonString(""))>> >>)

\* JSONConfigParser.get_dependencies, where it does not raise
GetDependencies(cfg) ==
    IF ~JsonTruthy(cfg) THEN JsonObject(<<>>)
    ELSE DictGet(cfg, "dependencies", JsonObject(<<>>))

\* project_info.get('name', 'Unknown'); the names of the metadata files
\* considered are JSON strings, and the text of the string is kept.
ProjectName(cfg) == DictGet(GetProjectInfo(cfg), "name", JsonString("Unknown")).text

-----------------------------------------------------------------------------
(* WorkflowAnalyzer *)

Range(f) == {f[k] : k \in 1..Len(f)}

RECURSIVE ConcatAll(_)
ConcatAll(lists) == IF lists = <<>> THEN <<>> ELSE Head(lists) \o ConcatAll(Tail(lists))

\* sep.join(strings)
RECURSIVE Join(_, _)
Join(strings, sep) ==
    IF strings = <<>> THEN ""
    ELSE IF Len(strings) = 1 THEN strings[1]
    ELSE strings[1] \o sep \o Join(Tail(strings), sep)

TypesOf(acts) == {acts[k].type : k \in 1..Len(acts)}

\* WorkflowAnalyzer._get_activity_purpose
GetActivityPurpose(type) ==
    CASE type = "Sequence" -> "Adimlari sirasiyla calistirir"
      [] type = "ForEachRow" -> "Veri tablosunun her satirinda dongu yapar"
      [] type = "NClick" -> "UI elementine tiklar"
      [] type = "NTypeInto" -> "UI elementine metin yazi"
      [] type = "NGetText" -> "UI elementinden metin okur"
      [] type = "ReadRange" -> "Excel alanini okur"
      [] OTHER -> "Bilinmeyen aktivite"

\* WorkflowAnalyzer._extract_activities
ExtractActivities(t) ==
    LET acts == GetActivities(t)
    IN  [k \in 1..Len(acts) |-> Activity(acts[k].name, acts[k].type, GetActivityPurpose(acts[k].type))]

\* WorkflowAnalyzer._extract_variables
ExtractVariables(t) ==
    LET variables == GetVariables(t)
    IN  [k \in 1..Len(variables) |-> variables[k][1] \o " (" \o variables[k][2] \o ")"]

\* x in str(activity_types): the text of a set of strings holds x exactly
\* when one of the strings does.
InTypesText(types, x) == \E type \in types : Contains(type, x)

\* WorkflowAnalyzer._detect_workflow_purpose
DetectWorkflowPurpose(t, cfg) ==
    LET types == TypesOf(GetActivities(t))
    IN  "Proje: " \o ProjectName(cfg) \o "\n"
        \o (IF \E x \in {"NClick", "NTypeInto", "NGetText"} : InTypesText(types, x)
            THEN "- Web Automation\n" ELSE "")
        \o (IF \E x \in {"ReadRange", "WriteCell"} : InTypesText(types, x)
            THEN "- Excel Isleme\n" ELSE "")
        \o (IF InTypesText(types, "ForEachRow") THEN "- Toplu Isleme\n" ELSE "")

MissingHandlerIssue ==
    Issue("High", "Error Handling", "Error Handler Eksikligi",
          "Is akisinda hicbir \"Try Catch\" aktivitesi bulunmamaktadir.",
          "Genel Is Akisi",
          "Projenin ana adimlarini \"Try Catch\" bloklari icine alarak hata yonetimini iyilestirin.")

ActivityThreshold == 5

\* _detect_issues, its own rule: no TryCatch among more than 5 activities.
MissingHandler(t) ==
    LET acts == GetActivities(t)
    IN  IF (~\E k \in 1..Len(acts) : acts[k].type = "TryCatch") /\ Len(acts) > ActivityThreshold
        THEN <<MissingHandlerIssue>> ELSE <<>>

TryCatchName(t, tc) == Get(t[tc], "DisplayName", "Try Catch")

BadLevelIssue(try_catch_name, log_name) ==
    Issue("Medium", "Logging", "Hatali Loglama Seviyesi",
          "'" \o try_catch_name \o "' aktivitesinin hata yakalama (Catch) blogunda, bir hata durumu '"
              \o log_name \o "' aktivitesi ile 'Info' veya 'Trace' seviyesinde loglaniyor.",
          "TryCatch: '" \o try_catch_name \o "' -> Catch blogu",
          "Ilgili '" \o log_name \o "' aktivitesinin 'Level' ozelligini 'Warn' veya 'Error' olarak degistirin.")

\* log_level is None or any(level in str(log_level) for level in ['Info', 'Trace'])
IsBadLevel(e) ==
    \/ ~HasAttr(e, "Level")
    \/ \E level \in {"Info", "Trace"} : Contains(Get(e, "Level", ""), level)

\* The issues of one Catch block of TryCatch tc.
BadLevelsOfCatch(t, tc, catch) ==
    IF ~EndsWith(t[catch].tag, "Catch") THEN <<>>
    ELSE LET bad(j) == IsBadLevel(t[j])
             logs == SelectSeq(FindAllBelowAnyNs(t, catch, "LogMessage"), bad)
         IN  [k \in 1..Len(logs) |->
                 BadLevelIssue(TryCatchName(t, tc), Get(t[logs[k]], "DisplayName", "Log Message"))]

BadLevelsOfTryCatch(t, tc) ==
    LET catches == FindChildAnyNs(t, tc, "TryCatch.Catches")
    IN  IF catches = 0 THEN <<>>
        ELSE LET blocks == ChildrenOf(t, catches)
             IN  ConcatAll([k \in 1..Len(blocks) |-> BadLevelsOfCatch(t, tc, blocks[k])])

\* WorkflowAnalyzer._check_for_improper_error_logging
CheckForImproperErrorLogging(t) ==
    IF t = None THEN <<>>
    ELSE LET tcs == FindAllBelowAnyNs(t, 1, "TryCatch")
         IN  ConcatAll([k \in 1..Len(tcs) |-> BadLevelsOfTryCatch(t, tcs[k])])

EmptyTryIssue(tc_name) ==
    Issue("Medium", "Logic Error", "Bos Try Blogu",
          "'" \o tc_name \o "' aktivitesinin 'Try' bolumu bos.",
          "TryCatch: '" \o tc_name \o "'",
          "'Try' bloguna calistirilacak aktiviteleri ekleyin veya bu 'TryCatch' aktivitesini kaldirin.")

EmptyCatchIssue(tc_name) ==
    Issue("High", "Logic Error", "Bos Catch Blogu",
          "'" \o tc_name \o "' aktivitesindeki bir 'Catch' blogu bos.",
          "TryCatch: '" \o tc_name \o "'",
          "Hata durumunda ne yapilmasi gerektigini belirtin.")

EmptyThenIssue(if_name) ==
    Issue("Low", "Logic Error", "Bos Then Blogu",
          "'" \o if_name \o "' aktivitesinin 'Then' (O zaman) bolumu bos.",
          "If: '" \o if_name \o "'",
          "Kosul dogru oldugunda calistirilacak mantigi 'Then' bloguna ekleyin.")

EmptyElseIssue(if_name) ==
    Issue("Low", "Logic Error", "Bos Else Blogu",
          "'" \o if_name \o "' aktivitesinin 'Else' (Degilse) bolumu bos.",
          "If: '" \o if_name \o "'",
          "Bu blogu bos birakmak yerine tamamen kaldirin.")

\* len(x) == 0 or (len(x) == 1 and len(x[0]) == 0)
EmptyBody(t, i) ==
    LET kids == ChildrenOf(t, i)
    IN  Len(kids) = 0 \/ (Len(kids) = 1 /\ Len(ChildrenOf(t, kids[1])) = 0)

EmptyBlocksOfTryCatch(t, tc) ==
    LET try_element == FindChildAnyNs(t, tc, "TryCatch.Try")
        catches == FindChildAnyNs(t, tc, "TryCatch.Catches")
        blocks == IF catches = 0 THEN <<>> ELSE ChildrenOf(t, catches)
        emptyCatch(catch) ==
            LET action == FindChildAnyNs(t, catch, "ActivityAction")
            IN  action = 0 \/ EmptyBody(t, action)
    IN  (IF try_element = 0 \/ Len(ChildrenOf(t, try_element)) = 0
         THEN <<EmptyTryIssue(TryCatchName(t, tc))>> ELSE <<>>)
        \o [k \in 1..Len(SelectSeq(blocks, emptyCatch)) |-> EmptyCatchIssue(TryCatchName(t, tc))]

EmptyBlocksOfIf(t, if) ==
    LET if_name == Get(t[if], "DisplayName", "If")
        then_element == FindChildAnyNs(t, if, "If.Then")
        else_element == FindChildAnyNs(t, if, "If.Else")
    IN  (IF then_element = 0 \/ EmptyBody(t, then_element)
         THEN <<EmptyThenIssue(if_name)>> ELSE <<>>)
        \o (IF else_element # 0 /\ Len(ChildrenOf(t, else_element)) = 0
            THEN <<EmptyElseIssue(if_name)>> ELSE <<>>)

\* WorkflowAnalyzer._find_empty_blocks
FindEmptyBlocks(t) ==
    LET tcs == FindAllBelowAnyNs(t, 1, "TryCatch")
        ifs == FindAllBelowAnyNs(t, 1, "If")
    IN  ConcatAll([k \in 1..Len(tcs) |-> EmptyBlocksOfTryCatch(t, tcs[k])])
        \o ConcatAll([k \in 1..Len(ifs) |-> EmptyBlocksOfIf(t, ifs[k])])

WordChars ==
    {"a", "b", "c", "d", "e", "f", "g", "h", "i", "j", "k", "l", "m",
     "n", "o", "p", "q", "r", "s", "t", "u", "v", "w", "x", "y", "z",
     "A", "B", "C", "D", "E", "F", "G", "H", "I", "J", "K", "L", "M",
     "N", "O", "P", "Q", "R", "S", "T", "U", "V", "W", "X", "Y", "Z",
     "0", "1", "2", "3", "4", "5", "6", "7", "8", "9", "_"}

\* \w at position i of text; the two ends of the text are not.
IsWordAt(text, i) == i >= 1 /\ i <= Len(text) /\ CharAt(text, i) \in WordChars

\* \b just before position i
BoundaryAt(text, i) == IsWordAt(text, i - 1) # IsWordAt(text, i)

\* len(re.findall(r'\b' + re.escape(name) + r'\b', text)) for a name made of
\* word characters: two matches of such a name cannot overlap, and findall
\* returns one match per position where the name stands between boundaries.
WordOccurrences(text, name) ==
    Cardinality({i \in 1..(Len(text) - Len(name) + 1) :
                    /\ SubSeq(text, i, i + Len(name) - 1) = name
                    /\ BoundaryAt(text, i)
                    /\ BoundaryAt(text, i + Len(name))})

UnusedVariableIssue(var_name, var_type) ==
    Issue("Low", "Code Smell", "Kullanilmayan Degisken",
          "'" \o var_name \o "' (" \o var_type \o ") degiskeni tanimlanmis ancak is akisinin hicbir yerinde kullanilmamis.",
          "Degiskenler Paneli",
          "Eger bu degiskene gercekten ihtiyac yoksa, kodun daha temiz ve anlasilir olmasi icin kaldirin.")

\* WorkflowAnalyzer._find_unused_variables
FindUnusedVariables(t, text) ==
    LET variables == GetVariables(t)
        unused(v) == WordOccurrences(text, v[1]) <= 1
        found == SelectSeq(variables, unused)
    IN  [k \in 1..Len(found) |-> UnusedVariableIssue(found[k][1], found[k][2])]

\* WorkflowAnalyzer._find_logic_flaws
FindLogicFlaws(t, text) ==
    IF t = None THEN <<>> ELSE FindEmptyBlocks(t) \o FindUnusedVariables(t, text)

\* _detect_issues with the logic flaws collected before the error-handling
\* rules.
DetectIssues_LogicFirst(t, text) ==
    FindLogicFlaws(t, text) \o MissingHandler(t) \o CheckForImproperErrorLogging(t)

\* WorkflowAnalyzer._detect_issues
DetectIssues(t, text) ==
    MissingHandler(t) \o CheckForImproperErrorLogging(t) \o FindLogicFlaws(t, text)

\* The orders in which a set of strings may be enumerated: the iteration
\* order of a Python set of str depends on the hash seed of the process.
Orderings(S) ==
    {order \in [1..Cardinality(S) -> S] : \A x \in S : \E i \in 1..Cardinality(S) : order[i] = x}

\* The action phrases _generate_prose_summary collects in a set.
SummaryActions(types) ==
      (IF types \cap {"NClick", "Click"} # {} THEN {"butonlara tiklama"} ELSE {})
    \cup (IF types \cap {"NTypeInto", "TypeInto"} # {} THEN {"form alanlarina veri girme"} ELSE {})
    \cup (IF types \cap {"NGetText", "GetText"} # {} THEN {"ekrandan metin okuma"} ELSE {})
    \cup (IF "ReadRange" \in types THEN {"Excel'den toplu veri okuma"} ELSE {})
    \cup (IF "WriteCell" \in types THEN {"Excel'e tekil veri yazma"} ELSE {})

Disclaimer ==
    "Bu ozet, aktivite turlerine dayali otomatik bir cikarimdir ve is akisinin karmasik mantigini tam olarak yansitmayabilir."

\* WorkflowAnalyzer._generate_prose_summary, for the order in which the set
\* of action phrases is enumerated.
GenerateProseSummary(acts, order) ==
    IF acts = <<>>
    THEN "Is akisi hakkinda bir ozet olusturmak icin yeterli aktivite bulunamadi."
    ELSE LET types == TypesOf(acts)
             is_web_automation ==
                 types \cap {"OpenBrowser", "NClick", "NTypeInto", "NGetText", "Click",
                             "TypeInto", "GetText", "UseApplicationBrowser"} # {}
             is_excel_automation ==
                 types \cap {"ReadRange", "WriteCell", "ExcelApplicationCard",
                             "ExcelProcessScope", "UseExcelFile"} # {}
             is_data_processing == "ForEachRow" \in types
             category ==
                 IF is_web_automation /\ is_excel_automation
                 THEN "Bu is akisi, Excel ve web arasinda veri tasiyan karma bir otomasyon sureci gibi gorunmektedir."
                 ELSE IF is_web_automation
                 THEN "Bu is akisi, bir web sitesi veya masaustu uygulamasiyla etkilesime giren bir UI otomasyonu surecidir."
                 ELSE IF is_excel_automation
                 THEN "Bu is akisi, bir Excel dosyasi uzerinde islem yapan bir otomasyon surecidir."
                 ELSE "Bu, tanimlanmis adimlari belirli bir sirada yuruten genel bir is akisidir."
             start ==
                 IF types \cap {"OpenBrowser", "UseApplicationBrowser"} # {}
                 THEN <<"Surec, bir web tarayicisi acarak veya mevcut bir tarayiciyi kullanarak baslar.">>
                 ELSE IF types \cap {"ExcelApplicationCard", "ExcelProcessScope", "UseExcelFile"} # {}
                 THEN <<"Surec, bir Excel dosyasiyla calisarak baslar.">>
                 ELSE <<>>
             loop ==
                 IF is_data_processing
                 THEN <<"Ardindan, bir veri tablosundaki her satir icin bir dizi eylemi dongusel olarak tekrar eder.">>
                 ELSE <<>>
             actions ==
                 IF order # <<>>
                 THEN <<"Temel islemler arasinda " \o Join(order, ", ") \o " gibi eylemler bulunmaktadir.">>
                 ELSE <<>>
             handling ==
                 IF "TryCatch" \in types
                 THEN <<"Is akisi, olasi hatalari yonetmek icin hata yakalama bloklari ('Try Catch') icermektedir.">>
                 ELSE <<>>
         IN  Join(<<category>> \o start \o loop \o actions \o handling \o <<Disclaimer>>, " ")

UiActivityTypes ==
    {"Click", "TypeInto", "NClick", "NTypeInto", "NGetText", "OpenBrowser",
     "AttachBrowser", "UseApplicationBrowser"}

LogThreshold == 3

\* _generate_recommendations, lines 471-508: the list before the test for the
\* fallback.
CollectedRecommendations(t) ==
    LET acts == GetActivities(t)
        isLog(a) == a.type = "LogMessage"
        isUi(a) == a.type \in UiActivityTypes
        noTimeout(a) ==
            /\ ~\E i \in 1..Len(a.attributes) : a.attributes[i][1] = "TimeoutMS"
            /\ ~\E i \in 1..Len(a.attributes) : a.attributes[i][1] = "Timeout"
        activities_to_check == SelectSeq(acts, isUi)
        without == SelectSeq(activities_to_check, noTimeout)
        acts_without_timeout == [k \in 1..Len(without) |-> "'" \o without[k].name \o "'"]
        handling ==
            IF (~\E k \in 1..Len(acts) : acts[k].type = "TryCatch") /\ Len(acts) > ActivityThreshold
            THEN <<"Global Error Handling Ekleyin: Projenin ana adimlarini bir 'Try Catch' aktivitesi icine alin.">>
            ELSE <<>>
        logging ==
            IF ~\E k \in 1..Len(acts) : acts[k].type = "LogMessage"
            THEN <<"Surec Takibi icin Loglama Yapin: Is akisinin baslangicina ve sonuna 'Log Message' ekleyin.">>
            ELSE IF Len(SelectSeq(acts, isLog)) < LogThreshold
            THEN <<"Loglamayi Detaylandirin: Mevcut loglama yetersiz olabilir.">>
            ELSE <<>>
        timeouts ==
            IF activities_to_check = <<>> THEN <<>>
            ELSE IF acts_without_timeout # <<>>
            THEN <<"Zaman Asimi (Timeout) Ayarlarini Belirtin: " \o Join(acts_without_timeout, ", ")
                   \o " gibi UI etkilesim aktivitelerinde ozel bir timeout degeri belirtilmemis.">>
            ELSE <<"Zaman Asimi (Timeout) Ayarlarini Gozden Gecirin: Tum UI aktivitelerinde timeout degeri belirtilmis.">>
    IN  handling \o logging \o timeouts

FallbackRecommendation == "Genel bir iyilestirme onerisi bulunamadi. Kodunuz iyi gorunuyor!"

\* _generate_recommendations without the fallback of lines 510-513.
GenerateRecommendations_NoFallback(t) == CollectedRecommendations(t)

\* WorkflowAnalyzer._generate_recommendations
GenerateRecommendations(t) ==
    IF CollectedRecommendations(t) = <<>>
    THEN <<FallbackRecommendation>>
    ELSE CollectedRecommendations(t)

\* analyze(), lines 190-202: the analysis object is built from the extractors.
\* get_project_info raises AttributeError on a config that is no dict.
AnalyzeBuild ==
    /\ pc = "a_json"
    /\ IF GetRaises(config)
       THEN analysis' = analysis /\ pc' = "a_raised"
       ELSE /\ analysis' =
                 [WorkflowAnalysis(ProjectName(config), DetectWorkflowPurpose(root, config))
                    EXCEPT !.activities = ExtractActivities(root),
                           !.variables = ExtractVariables(root),
                           !.dependencies = GetDependencies(config),
                           !.urls = GetUrls(root),
                           !.components = TypesOf(ExtractActivities(root))]
            /\ pc' = "a_built"
    /\ UNCHANGED <<files, observed, raw_content, root, config, analyzerSets, report>>

\* analyze(): self.analysis.prose_summary = self._generate_prose_summary()
GenerateProseSummaryStep ==
    /\ pc = "a_built"
    /\ \E order \in Orderings(SummaryActions(TypesOf(analysis.activities))) :
          analysis' = [analysis EXCEPT !.prose_summary = GenerateProseSummary(analysis.activities, order)]
    /\ pc' = "a_summarised"
    /\ UNCHANGED <<files, observed, raw_content, root, config, analyzerSets, report>>

\* analyze(): self.analysis.issues = self._detect_issues()
DetectIssuesStep ==
    /\ pc = "a_summarised"
    /\ analysis' = [analysis EXCEPT !.issues = DetectIssues(root, raw_content)]
    /\ pc' = "a_detected"
    /\ UNCHANGED <<files, observed, raw_content, root, config, analyzerSets, report>>

\* analyze(): self.analysis.recommendations = self._generate_recommendations()
GenerateRecommendationsStep ==
    /\ pc = "a_detected"
    /\ analysis' = [analysis EXCEPT !.recommendations = GenerateRecommendations(root)]
    /\ pc' = "a_recommended"
    /\ UNCHANGED <<files, observed, raw_content, root, config, analyzerSets, report>>

-----------------------------------------------------------------------------
(* app.py: generate_json_report *)

\* The dictionary generate_json_report dumps; json.loads of the text gives
\* the same dictionary back.  round(score, 2) leaves a whole score as it is.
JsonReport(a, now) ==
    [metadata |-> [generated |-> now, tool |-> "UiPath Workflow Analyzer", version |-> "1.0.0"],
     summary |-> [workflow_name |-> a.workflow_name,
                  health_score |-> a.overall_health_score,
                  activities_count |-> Len(a.activities),
                  variables_count |-> Len(a.variables),
                  issues_count |-> Len(a.issues),
                  recommendations_count |-> Len(a.recommendations)],
     workflow_purpose |-> a.workflow_purpose,
     activities |-> [k \in 1..Len(a.activities) |->
                        [name |-> a.activities[k].name,
                         type |-> a.activities[k].type,
                         purpose |-> a.activities[k].purpose]],
     variables |-> a.variables,
     issues |-> a.issues,
     recommendations |-> a.recommendations,
     dependencies |-> a.dependencies]

\* datetime.now() at the two renderings considered.
Instants == {"2024-01-01T00:00:00", "2024-01-02T00:00:00"}

GenerateJsonReport ==
    /\ pc = "a_done"
    /\ \E now \in Instants : report' = JsonReport(analysis, now)
    /\ pc' = "a_reported"
    /\ UNCHANGED <<files, observed, raw_content, root, config, analysis, analyzerSets>>

-----------------------------------------------------------------------------
(* main.py: UiPathXAMLAnalyzer *)

Finding(severity, category, description, location, suggestion) ==
    [severity |-> severity, category |-> category, description |-> description,
     location |-> location, suggestion |-> suggestion]

\* dict[key] = value on a dict kept as a sequence of <<key, value>>
DictSet(d, key, value) ==
    IF \E i \in 1..Len(d) : d[i][1] = key
    THEN [i \in 1..Len(d) |-> IF d[i][1] = key THEN <<key, value>> ELSE d[i]]
    ELSE Append(d, <<key, value>>)

\* The loop of load_xaml over the first n start-ns events.  iterparse yields
\* (event, elem) with event the name "start-ns" and elem the pair
\* (prefix, uri); the loop unpacks  prefix, uri = event,  which raises
\* ValueError unless event has exactly two items.  The result is the
\* namespaces left and whether the loop raised.
RECURSIVE LoadNamespaces(_, _)
LoadNamespaces(nsDecls, n) ==
    IF n = 0 THEN [raised |-> FALSE, namespaces |-> <<>>]
    ELSE LET before == LoadNamespaces(nsDecls, n - 1)
             event == "start-ns"
         IN  IF before.raised THEN before
             ELSE IF Len(event) # 2 THEN [raised |-> TRUE, namespaces |-> before.namespaces]
             ELSE LET prefix == CharAt(event, 1)
                      uri == CharAt(event, 2)
                  IN  [raised |-> FALSE,
                       namespaces |-> DictSet(before.namespaces,
                                              IF prefix # "" THEN prefix ELSE "default", uri)]

\* UiPathXAMLAnalyzer.load_xaml: any exception makes it return False, after
\* which analyze() returns without running a check.
LoadXaml ==
    /\ pc = "m_start"
    /\ IF ~xamlFile.wellFormed
       THEN root' = root /\ namespaces' = namespaces /\ pc' = "m_failed"
       ELSE LET loaded == LoadNamespaces(xamlFile.nsDecls, Len(xamlFile.nsDecls))
            IN  /\ root' = xamlFile.elems
                /\ namespaces' = loaded.namespaces
                /\ pc' = IF loaded.raised THEN "m_failed" ELSE "m_error_handling"
    /\ UNCHANGED <<files, observed, raw_content, config, analysis, issues, urls, db_connections,
                   used_activities, report>>

\* UiPathXAMLAnalyzer.find_all_elements
FindAllElements(t, nss, tag) ==
    ConcatAll([k \in 1..Len(nss) |-> FindAllBelow(t, 1, QTag(nss[k][2], tag))])

\* UiPathXAMLAnalyzer._find_nested_elements
FindNestedElements(t, nss, parent, tag_names) ==
    ConcatAll([n \in 1..Len(tag_names) |->
                 ConcatAll([k \in 1..Len(nss) |-> FindAllBelow(t, parent, QTag(nss[k][2], tag_names[n]))])])

\* UiPathXAMLAnalyzer._find_parent: 0 for None
FindParent(t, child) == t[child].parent

RECURSIVE MaxOver(_, _, _, _)
RECURSIVE CalculateMaxDepth(_, _, _)
\* UiPathXAMLAnalyzer._calculate_max_depth
CalculateMaxDepth(t, element, current_depth) ==
    IF Len(ChildrenOf(t, element)) = 0 THEN current_depth
    ELSE MaxOver(t, ChildrenOf(t, element), current_depth, current_depth)

\* The loop of _calculate_max_depth over the children.
MaxOver(t, kids, current_depth, max_child_depth) ==
    IF kids = <<>> THEN max_child_depth
    ELSE MaxOver(t, Tail(kids), current_depth,
                 Max(max_child_depth, CalculateMaxDepth(t, Head(kids), current_depth + 1)))

\* len(find_all_elements("Sequence")) + len(find_all_elements("Flowchart"))
TotalActivities(t, nss) ==
    Len(FindAllElements(t, nss, "Sequence")) + Len(FindAllElements(t, nss, "Flowchart"))

NoTryCatchFinding ==
    Finding("CRITICAL", "Error Handling", "Hicbir Try-Catch blogu bulunamadi", "Tum workflow",
            "Ana is akisina ve kritik islemlere Try-Catch ekleyin.")

SparseTryCatchFinding(try_catches, total_activities) ==
    Finding("WARNING", "Error Handling",
            "Yetersiz hata yonetimi: " \o ToString(try_catches) \o " Try-Catch, "
                \o ToString(total_activities) \o " aktivite icin",
            "Cesitli lokasyonlar", "Kritik islemlere daha fazla hata yonetimi ekleyin")

\* UiPathXAMLAnalyzer.check_error_handling: the findings it appends
ErrorHandlingFindings(t, nss) ==
    LET try_catch_elements == FindAllElements(t, nss, "TryCatch")
    IN  IF Len(try_catch_elements) = 0 THEN <<NoTryCatchFinding>>
        ELSE IF 2 * Len(try_catch_elements) < TotalActivities(t, nss) THEN <<SparseTryCatchFinding(Len(try_catch_elements), TotalActivities(t, nss))>>
        ELSE <<>>

ScopeInLoopFinding ==
    Finding("CRITICAL", "Performance", "Excel Process Scope/Application Card dongu icinde bulundu",
            "ForEachRow icinde", "Excel dosyasini dongu DISINDA acin.")

AutoIncrementFinding ==
    Finding("WARNING", "Excel Operations", "AutoIncrementRow kullaniliyor", "WriteCellX aktivitesi",
            "AutoIncrement yerine satir indeksi ile calismayi dusunun.")

\* UiPathXAMLAnalyzer.check_excel_operations
ExcelFindings(t, nss) ==
    LET for_each_rows == FindAllElements(t, nss, "ForEachRow")
        write_cells == FindAllElements(t, nss, "WriteCellX")
        hasScope(loop) ==
            FindNestedElements(t, nss, loop, <<"ExcelProcessScopeX", "ExcelApplicationCard">>) # <<>>
        autoIncrement(cell) == Get(t[cell], "AutoIncrementRow", "False") = "True"
    IN  [k \in 1..Len(SelectSeq(for_each_rows, hasScope)) |-> ScopeInLoopFinding]
        \o [k \in 1..Len(SelectSeq(write_cells, autoIncrement)) |-> AutoIncrementFinding]

UpperCase == <<"A", "B", "C", "D", "E", "F", "G", "H", "I", "J", "K", "L", "M",
               "N", "O", "P", "Q", "R", "S", "T", "U", "V", "W", "X", "Y", "Z">>
LowerCase == <<"a", "b", "c", "d", "e", "f", "g", "h", "i", "j", "k", "l", "m",
               "n", "o", "p", "q", "r", "s", "t", "u", "v", "w", "x", "y", "z">>
Digits == {"0", "1", "2", "3", "4", "5", "6", "7", "8", "9"}

IsUpper(c) == \E k \in 1..Len(UpperCase) : UpperCase[k] = c
IsLower(c) == \E k \in 1..Len(LowerCase) : LowerCase[k] = c

\* str.lower()
RECURSIVE Lower(_)
Lower(str) ==
    IF str = "" THEN ""
    ELSE LET c == CharAt(str, 1)
         IN  (IF IsUpper(c) THEN LowerCase[CHOOSE k \in 1..Len(UpperCase) : UpperCase[k] = c] ELSE c)
             \o Lower(SubSeq(str, 2, Len(str)))

NestedScopeFinding ==
    Finding("WARNING", "Browser Operations", "Ic ice Browser Scope bulundu",
            "NApplicationCard icinde NApplicationCard", "Ic ice browser scope'lari kaldirin.")

EmptyFieldFinding ==
    Finding("INFO", "Browser Operations", "Type Into EmptyFieldMode onerisi", "NTypeInto aktivitesi",
            "EmptyFieldMode='SingleLine' kullanarak alani once temizleyin")

NoDelayAfterFinding(display_name) ==
    Finding("WARNING", "Browser Operations", "'" \o display_name \o "' sonrasi bekleme yok",
            "NClick aktivitesi", "Calculate/Submit butonundan sonra 2-3 saniye Delay ekleyin.")

\* namespaces.get(key, default)
NsGet(nss, key, default) ==
    IF \E i \in 1..Len(nss) : nss[i][1] = key
    THEN nss[CHOOSE i \in 1..Len(nss) : nss[i][1] = key][2]
    ELSE default

\* children.index(click): the first position of the element among its siblings
IndexIn(kids, j) == CHOOSE k \in 1..Len(kids) : kids[k] = j /\ \A m \in 1..(k - 1) : kids[m] # j

\* check_browser_operations: the test of one NClick
ClickLacksDelay(t, nss, click) ==
    LET display_name == Get(t[click], "DisplayName", "")
        delay_tag == QTag(NsGet(nss, "s", NsActivities), "Delay")
        parent == FindParent(t, click)
        children == ChildrenOf(t, parent)
        click_index == IndexIn(children, click)
    IN  /\ Contains(Lower(display_name), "calculate") \/ Contains(Lower(display_name), "submit")
        /\ parent # 0
        /\ click_index < Len(children)
        /\ t[children[click_index + 1]].tag # delay_tag

\* UiPathXAMLAnalyzer.check_browser_operations
BrowserFindings(t, nss) ==
    LET browser_scopes == FindAllElements(t, nss, "NApplicationCard")
        nested(scope) == FindNestedElements(t, nss, scope, <<"NApplicationCard">>) # <<>>
        type_intos == FindAllElements(t, nss, "NTypeInto")
        notSingleLine(j) == ~(HasAttr(t[j], "EmptyFieldMode") /\ Get(t[j], "EmptyFieldMode", "") = "SingleLine")
        clicks == FindAllElements(t, nss, "NClick")
        lacksDelay(j) == ClickLacksDelay(t, nss, j)
        late == SelectSeq(clicks, lacksDelay)
    IN  [k \in 1..Len(SelectSeq(browser_scopes, nested)) |-> NestedScopeFinding]
        \o [k \in 1..Len(SelectSeq(type_intos, notSingleLine)) |-> EmptyFieldFinding]
        \o [k \in 1..Len(late) |-> NoDelayAfterFinding(Get(t[late[k]], "DisplayName", ""))]

LoopWithoutTryCatchFinding ==
    Finding("CRITICAL", "Error Handling", "ForEachRow dongusu icinde Try-Catch yok",
            "ForEachRow aktivitesi", "Dongu icinde her iterasyonu Try-Catch ile koruyun.")

LoopUnderLoggedFinding ==
    Finding("WARNING", "Logging", "ForEachRow dongusunde yetersiz logging",
            "ForEachRow aktivitesi", "Her iterasyonun basinda ve sonunda log mesaji ekleyin.")

LoopLogThreshold == 2

\* check_loops: the findings of one ForEachRow
LoopFindings(t, nss, loop) ==
    (IF FindNestedElements(t, nss, loop, <<"TryCatch">>) = <<>>
     THEN <<LoopWithoutTryCatchFinding>> ELSE <<>>)
    \o (IF Len(FindNestedElements(t, nss, loop, <<"LogMessage">>)) < LoopLogThreshold
        THEN <<LoopUnderLoggedFinding>> ELSE <<>>)

\* UiPathXAMLAnalyzer.check_loops
LoopsFindings(t, nss) ==
    LET for_each_rows == FindAllElements(t, nss, "ForEachRow")
    IN  ConcatAll([k \in 1..Len(for_each_rows) |-> LoopFindings(t, nss, for_each_rows[k])])

LongQueryFinding ==
    Finding("WARNING", "Selectors", "Selector'da uzun parametreli URL kullaniliyor",
            "TargetAnchorable", "Sadece base URL kullanin veya wildcard kullanin.")

FullSelectorOnlyFinding ==
    Finding("INFO", "Selectors", "Sadece Full Selector kullaniliyor, Fuzzy yok",
            "TargetAnchorable", "Fuzzy Selector ekleyerek selector guvenilirligini artirin")

\* The first position of character c in str at or after position i, Len(str) + 1 if none.
RECURSIVE IndexFrom(_, _, _)
IndexFrom(str, c, i) ==
    IF i > Len(str) THEN Len(str) + 1
    ELSE IF CharAt(str, i) = c THEN i
    ELSE IndexFrom(str, c, i + 1)

\* len(browser_url.split("?")[1])
SecondPartLen(browser_url) ==
    IndexFrom(browser_url, "?", IndexFrom(browser_url, "?", 1) + 1) - IndexFrom(browser_url, "?", 1) - 1

QueryLimit == 50

\* check_selectors: the findings of one TargetAnchorable
SelectorFindings(e) ==
    LET browser_url == Get(e, "BrowserURL", "")
        full_selector == Get(e, "FullSelectorArgument", "")
        fuzzy_selector == Get(e, "FuzzySelectorArgument", "")
    IN  (IF Contains(browser_url, "?") /\ SecondPartLen(browser_url) > QueryLimit
         THEN <<LongQueryFinding>> ELSE <<>>)
        \o (IF fuzzy_selector = "" /\ full_selector # ""
            THEN <<FullSelectorOnlyFinding>> ELSE <<>>)

\* UiPathXAMLAnalyzer.check_selectors
SelectorsFindings(t, nss) ==
    LET all_targets == FindAllElements(t, nss, "TargetAnchorable")
    IN  ConcatAll([k \in 1..Len(all_targets) |-> SelectorFindings(t[all_targets[k]])])

NoDelayFinding ==
    Finding("WARNING", "Timing", "Hic Delay aktivitesi bulunamadi", "Tum workflow",
            "Web islemleri icin uygun yerlere Delay ekleyin.")

\* UiPathXAMLAnalyzer.check_delays
DelaysFindings(t, nss) ==
    IF Len(FindAllElements(t, nss, "Delay")) = 0 THEN <<NoDelayFinding>> ELSE <<>>

NoLogFinding ==
    Finding("CRITICAL", "Logging", "Hic Log Message bulunamadi", "Tum workflow",
            "Is akisinin kritik noktalarina log mesajlari ekleyin.")

FewLogsFinding(log_messages) ==
    Finding("WARNING", "Logging",
            "Yetersiz logging: Sadece " \o ToString(log_messages) \o " log mesaji",
            "Tum workflow", "Daha fazla log mesaji ekleyin.")

FewLogsLimit == 3

\* UiPathXAMLAnalyzer.check_logging
LoggingFindings(t, nss) ==
    LET log_messages == FindAllElements(t, nss, "LogMessage")
    IN  IF Len(log_messages) = 0 THEN <<NoLogFinding>>
        ELSE IF Len(log_messages) < FewLogsLimit THEN <<FewLogsFinding(Len(log_messages))>>
        ELSE <<>>

HardcodedPathFinding(path) ==
    Finding("WARNING", "File Paths", "Hardcoded dosya yolu kullaniliyor: " \o path,
            "WorkbookPath", "Path.Combine ile mutlak yol olusturun veya Config dosyasi kullanin.")

TypoFinding(path) ==
    Finding("INFO", "File Paths", "Yazim hatasi: 'Auxilliary' -> 'Auxiliary'",
            "Path: " \o path, "Klasor ismini duzeltin")

\* re.search(r"[a-zA-Z]:\\", path)
HasDriveLetter(path) ==
    \E i \in 1..(Len(path) - 2) :
        /\ IsUpper(CharAt(path, i)) \/ IsLower(CharAt(path, i))
        /\ SubSeq(path, i + 1, i + 2) = ":\\"

\* check_file_paths: the findings of one element
FilePathFindings(e) ==
    IF ~HasAttr(e, "WorkbookPath") THEN <<>>
    ELSE LET path == Get(e, "WorkbookPath", "")
         IN  (IF HasDriveLetter(path) \/ StartsWith(path, "\\\\")
              THEN <<HardcodedPathFinding(path)>> ELSE <<>>)
             \o (IF Contains(path, "Auxilliary") THEN <<TypoFinding(path)>> ELSE <<>>)

\* UiPathXAMLAnalyzer.check_file_paths
FilePathsFindings(t) ==
    ConcatAll([k \in 1..Len(Iter(t, 1)) |-> FilePathFindings(t[Iter(t, 1)[k]])])

\* The length of the longest run of characters satisfying the class test from position i.
RECURSIVE RunLen(_, _, _)
RunLen(str, i, digitsToo) ==
    IF i > Len(str) THEN 0
    ELSE IF IsLower(CharAt(str, i)) \/ (digitsToo /\ CharAt(str, i) \in Digits)
    THEN 1 + RunLen(str, i + 1, digitsToo)
    ELSE 0

\* ([A-Z][a-z0-9]+)*$ from position i
RECURSIVE Humps(_, _)
Humps(str, i) ==
    IF i > Len(str) THEN TRUE
    ELSE /\ IsUpper(CharAt(str, i))
         /\ RunLen(str, i + 1, TRUE) >= 1
         /\ Humps(str, i + 1 + RunLen(str, i + 1, TRUE))

\* re.match(r"^[a-z]+([A-Z][a-z0-9]+)*$|^[A-Z][a-z0-9]+([A-Z][a-z0-9]+)*$", name)
FollowsConvention(name) ==
    \/ RunLen(name, 1, FALSE) >= 1 /\ Humps(name, 1 + RunLen(name, 1, FALSE))
    \/ name # "" /\ IsUpper(CharAt(name, 1)) /\ Humps(name, 1)

NamingFinding(name) ==
    Finding("INFO", "Naming Convention", "Degisken ismi convention'a uymuyor: " \o name,
            "Variable tanimi", "camelCase veya PascalCase kullanin.")

ShortName == 3

\* UiPathXAMLAnalyzer.check_variables: whether it raises KeyError (the
\* comprehension reads self.namespaces['x'] once per variable) and the
\* findings it appends otherwise
CheckVariables(t, nss) ==
    LET variables == FindAllElements(t, nss, "Variable")
        hasX == \E i \in 1..Len(nss) : nss[i][1] = "x"
        misnamed(j) ==
            /\ HasAttr(t[j], "Name")
            /\ Get(t[j], "Name", "") # ""
            /\ ~FollowsConvention(Get(t[j], "Name", ""))
            /\ Len(Get(t[j], "Name", "")) > ShortName
        bad == SelectSeq(variables, misnamed)
    IN  IF variables # <<>> /\ ~hasX THEN [raised |-> TRUE, findings |-> <<>>]
        ELSE [raised |-> FALSE,
              findings |-> [k \in 1..Len(bad) |-> NamingFinding(Get(t[bad[k]], "Name", ""))]]

DeepNestingFinding(max_depth) ==
    Finding("WARNING", "Performance", "Cok derin ic ice yapi: " \o ToString(max_depth) \o " seviye",
            "Workflow yapisi", "Ic ice gecmis yapilari yeniden duzenleyin.")

DepthLimit == 7

\* UiPathXAMLAnalyzer.check_performance
PerformanceFindings(t) ==
    LET max_depth == CalculateMaxDepth(t, 1, 0)
    IN  IF max_depth > DepthLimit THEN <<DeepNestingFinding(max_depth)>> ELSE <<>>

Whitespace == {" ", "\t", "\n", "\r", "\f"}

\* str.strip()
RECURSIVE Strip(_)
Strip(str) ==
    IF str = "" THEN ""
    ELSE IF CharAt(str, 1) \in Whitespace THEN Strip(SubSeq(str, 2, Len(str)))
    ELSE IF CharAt(str, Len(str)) \in Whitespace THEN Strip(SubSeq(str, 1, Len(str) - 1))
    ELSE str

\* The characters that [^\s"'\]] excludes.
UrlStops == Whitespace \cup {"\"", "'", "]"}

\* The length of the longest run of characters outside UrlStops from position i.
RECURSIVE UrlRun(_, _)
UrlRun(str, i) ==
    IF i > Len(str) \/ CharAt(str, i) \in UrlStops THEN 0 ELSE 1 + UrlRun(str, i + 1)

\* re.compile(r'https?://[^\s"\'\]]+').findall(value), scanning from position i
RECURSIVE FindAllUrls(_, _)
FindAllUrls(value, i) ==
    IF i > Len(value) THEN {}
    ELSE LET rest == SubSeq(value, i, Len(value))
             scheme == IF StartsWith(rest, "http://") THEN 7
                       ELSE IF StartsWith(rest, "https://") THEN 8 ELSE 0
             run == UrlRun(value, i + scheme)
         IN  IF scheme > 0 /\ run >= 1
             THEN {SubSeq(value, i, i + scheme + run - 1)} \cup FindAllUrls(value, i + scheme + run)
             ELSE FindAllUrls(value, i + 1)

\* UiPathXAMLAnalyzer.extract_urls: what it adds to self.urls
ExtractUrls(t) ==
    {Strip(item[2]) : item \in {it \in AttribItems(t) :
                                  /\ Contains(it[1], "Url") \/ Contains(it[1], "Uri")
                                  /\ it[2] # ""}}
    \cup UNION {FindAllUrls(item[2], 1) : item \in AttribItems(t)}

\* UiPathXAMLAnalyzer.extract_database_connections
ExtractDatabaseConnections(t, nss) ==
    LET db_connect_activities == FindAllElements(t, nss, "DatabaseConnect")
    IN  {Get(t[db_connect_activities[k]], "ConnectionString", "") :
            k \in {k \in 1..Len(db_connect_activities) :
                     Get(t[db_connect_activities[k]], "ConnectionString", "") # ""}}

\* UiPathXAMLAnalyzer.extract_activities
ExtractUsedActivities(t) ==
    {LocalName(t[j].tag) : j \in {j \in 1..Len(t) : Contains(t[j].tag, "}")}}

\* One step of analyze(): a check appends its findings and control moves on.
CheckStep(at, findings, then) ==
    /\ pc = at
    /\ issues' = issues \o findings
    /\ pc' = then
    /\ UNCHANGED <<files, observed, raw_content, root, config, analysis, namespaces, urls,
                   db_connections, used_activities, report>>

CheckErrorHandling ==
    CheckStep("m_error_handling", ErrorHandlingFindings(root, namespaces), "m_excel")

CheckExcelOperations ==
    CheckStep("m_excel", ExcelFindings(root, namespaces), "m_browser")

CheckBrowserOperations ==
    CheckStep("m_browser", BrowserFindings(root, namespaces), "m_loops")

CheckLoops ==
    CheckStep("m_loops", LoopsFindings(root, namespaces), "m_selectors")

CheckSelectors ==
    CheckStep("m_selectors", SelectorsFindings(root, namespaces), "m_delays")

CheckDelays ==
    CheckStep("m_delays", DelaysFindings(root, namespaces), "m_logging")

CheckLogging ==
    CheckStep("m_logging", LoggingFindings(root, namespaces), "m_file_paths")

CheckFilePaths ==
    CheckStep("m_file_paths", FilePathsFindings(root), "m_variables")

\* check_variables; a KeyError leaves analyze().
CheckVariablesStep ==
    LET checked == CheckVariables(root, namespaces)
    IN  CheckStep("m_variables", checked.findings,
                  IF checked.raised THEN "m_raised" ELSE "m_performance")

CheckPerformance ==
    CheckStep("m_performance", PerformanceFindings(root), "m_resources")

\* UiPathXAMLAnalyzer.extract_resources, then print_report
ExtractResources ==
    /\ pc = "m_resources"
    /\ urls' = urls \cup ExtractUrls(root)
    /\ db_connections' = db_connections \cup ExtractDatabaseConnections(root, namespaces)
    /\ used_activities' = used_activities \cup ExtractUsedActivities(root)
    /\ pc' = "m_done"
    /\ UNCHANGED <<files, observed, raw_content, root, config, analysis, namespaces, issues, report>>

-----------------------------------------------------------------------------
(* The workflow files and metadata files considered *)

MaxFlat == 6
MaxVars == 2

NsDeclsFull == << <<"", NsActivities>>, <<"x", NsXaml>>, <<"ui", NsUi>> >>

\* "declared": the three namespaces of a UiPath workflow are declared on the
\* root and every element is in one of them; "plain": no namespace at all.
Layouts == {"declared", "plain"}

UiTags ==
    {"LogMessage", "ForEachRow", "ForEachRow.Body", "ExcelApplicationCard",
     "ExcelProcessScopeX", "WriteCell", "WriteCellX", "NClick", "NTypeInto",
     "NApplicationCard", "OpenBrowser"}

Q(layout, local) ==
    IF layout = "plain" THEN local
    ELSE IF local \in UiTags THEN QTag(NsUi, local)
    ELSE IF local = "String" THEN QTag(NsXaml, local)
    ELSE QTag(NsActivities, local)

Xaml(layout, elems) ==
    [wellFormed |-> TRUE,
     nsDecls |-> IF layout = "declared" THEN NsDeclsFull ELSE <<>>,
     elems |-> elems]

SeqsUpTo(S, n) == UNION {[1..k -> S] : k \in 0..n}

\* A root with up to MaxFlat children, each of any of three tags.
FlatTags == {"Assign", "Sequence", "TryCatch"}

FlatDoc(layout, kids) ==
    Xaml(layout, <<Elem(0, Q(layout, "Activity"), <<>>, "")>>
                 \o [k \in 1..Len(kids) |-> Elem(1, Q(layout, kids[k]), <<>>, "")])

FlatDocs(layouts, n) == {FlatDoc(layout, kids) : layout \in layouts, kids \in SeqsUpTo(FlatTags, n)}

\* A Sequence that declares the variables of  declared,  holds an Assign that
\* reads  used  (none for ""), and holds an inner Sequence that declares
\* inner  (none for "").
VarNames == {"cnt", "Name", "Variable", "Unknown"}

VariableElem(layout, parent, name) ==
    Elem(parent, Q(layout, "Variable"),
         (IF layout = "declared" THEN << <<QTag(NsXaml, "TypeArguments"), "x:String">> >> ELSE <<>>)
         \o << <<"Name", name>> >>, "")

VarDoc(layout, declared, used, inner) ==
    LET scope == <<Elem(0, Q(layout, "Activity"), <<>>, ""),
                   Elem(1, Q(layout, "Sequence"), << <<"DisplayName", "Main">> >>, ""),
                   Elem(2, Q(layout, "Sequence.Variables"), <<>>, "")>>
                 \o [k \in 1..Len(declared) |-> VariableElem(layout, 3, declared[k])]
        assign == IF used = "" THEN <<>>
                  ELSE <<Elem(2, Q(layout, "Assign"), << <<"Value", "[" \o used \o " + 1]">> >>, "")>>
        n == Len(scope) + Len(assign)
        nested == IF inner = "" THEN <<>>
                  ELSE <<Elem(2, Q(layout, "Sequence"), <<>>, ""),
                         Elem(n + 1, Q(layout, "Sequence.Variables"), <<>>, ""),
                         VariableElem(layout, n + 2, inner)>>
    IN  Xaml(layout, scope \o assign \o nested)

VarDocs(layouts, n) ==
    {VarDoc(layout, declared, used, inner) :
        layout \in layouts, declared \in SeqsUpTo(VarNames, n),
        used \in VarNames \cup {""}, inner \in VarNames \cup {""}}

\* A root with one OpenBrowser that has one attribute, and a String element
\* with the text  text  (none for "").
UrlKeys == {"Url", "ServiceUri", "Endpoint", "BrowserURL", "Text"}
UrlValues ==
    {"http://a.io", "https://a.io/x?y=1", "[strUrl]", " http://a.io ", "ftp://a.io",
     "go to http://a.io/p now", "http://a.io]https://b.io", "httpx"}

UrlDoc(layout, key, value, text) ==
    Xaml(layout, <<Elem(0, Q(layout, "Activity"), <<>>, ""),
                   Elem(1, Q(layout, "OpenBrowser"), << <<key, value>> >>, "")>>
                 \o (IF text = "" THEN <<>> ELSE <<Elem(1, Q(layout, "String"), <<>>, text)>>))

UrlDocs(layouts) ==
    {UrlDoc(layout, key, value, text) :
        layout \in layouts, key \in UrlKeys, value \in UrlValues, text \in UrlValues \cup {""}}

\* A root without children.
RootTags == {"Activity", "Sequence", "Variable", "TryCatch", "If", "ForEachRow"}
RootAttribs ==
    {<<>>, << <<"Url", "http://a.io">> >>, << <<"Name", "cnt">> >>, << <<"DisplayName", "Main">> >>}

ChildlessDocs(layouts) ==
    {Xaml(layout, <<Elem(0, Q(layout, tag), attrib, "")>>) :
        layout \in layouts, tag \in RootTags, attrib \in RootAttribs}

\* A root over a chain of up to MaxChain elements, each the only child of the
\* one before; a WriteCell or WriteCellX has AutoIncrementRow="True" when
\* auto  holds.
MaxChain == 3

ChainTags == {"ForEachRow", "Sequence", "ExcelApplicationCard", "WriteCell", "WriteCellX"}

ChainDoc(layout, tags, auto) ==
    Xaml(layout, <<Elem(0, Q(layout, "Activity"), <<>>, "")>>
                 \o [k \in 1..Len(tags) |->
                       Elem(k, Q(layout, tags[k]),
                            IF auto /\ tags[k] \in {"WriteCell", "WriteCellX"}
                            THEN << <<"AutoIncrementRow", "True">> >> ELSE <<>>, "")])

ChainDocs(layouts, n) ==
    {ChainDoc(layout, tags, auto) :
        layout \in layouts, tags \in SeqsUpTo(ChainTags, n), auto \in BOOLEAN}

\* A root over a chain of n Sequences.
MaxDepth == 9

DeepDocs(layouts) ==
    {ChainDoc(layout, [k \in 1..n |-> "Sequence"], FALSE) : layout \in layouts, n \in 0..MaxDepth}

\* A root with one ExcelApplicationCard that names its workbook.
WorkbookPaths == {"C:\\Data\\a.xlsx", "\\\\srv\\a.xlsx", "Data\\Auxilliary\\a.xlsx", "a.xlsx"}

PathDocs(layouts) ==
    {Xaml(layout, <<Elem(0, Q(layout, "Activity"), <<>>, ""),
                    Elem(1, Q(layout, "ExcelApplicationCard"), << <<"WorkbookPath", path>> >>, "")>>) :
        layout \in layouts, path \in WorkbookPaths}

\* A root over, in this order: a Variable "cnt" that nothing reads (when
\* unused), a childless If (when emptyIf),  padding  Assign elements, and a
\* TryCatch (unless handler is "none") with an empty Try and one Catch whose
\* body logs at the level  handler.
MaxPadding == 5
HandlerLevels == {"none", "Info", "Error"}

RuleDoc(layout, handler, emptyIf, unused, padding) ==
    LET head == <<Elem(0, Q(layout, "Activity"), <<>>, "")>>
                \o (IF unused THEN <<VariableElem(layout, 1, "cnt")>> ELSE <<>>)
                \o (IF emptyIf THEN <<Elem(1, Q(layout, "If"), <<>>, "")>> ELSE <<>>)
                \o [k \in 1..padding |-> Elem(1, Q(layout, "Assign"), <<>>, "")]
        b == Len(head)
        tc == IF handler = "none" THEN <<>>
              ELSE <<Elem(1, Q(layout, "TryCatch"), <<>>, ""),
                     Elem(b + 1, Q(layout, "TryCatch.Try"), <<>>, ""),
                     Elem(b + 1, Q(layout, "TryCatch.Catches"), <<>>, ""),
                     Elem(b + 3, Q(layout, "Catch"), <<>>, ""),
                     Elem(b + 4, Q(layout, "ActivityAction"), <<>>, ""),
                     Elem(b + 5, Q(layout, "Sequence"), <<>>, ""),
                     Elem(b + 6, Q(layout, "LogMessage"), << <<"Level", handler>> >>, "")>>
    IN  Xaml(layout, head \o tc)

RuleDocs(layouts) ==
    {RuleDoc(layout, handler, emptyIf, unused, padding) :
        layout \in layouts, handler \in HandlerLevels, emptyIf \in BOOLEAN,
        unused \in BOOLEAN, padding \in {0, MaxPadding}}

\* A root over one childless element for each tag of  kinds  and  logs
\* LogMessage elements; the NClick and NTypeInto elements have the attribute
\* TimeoutMS when  timeout  holds.
MaxLogs == 3
KindOrder == <<"TryCatch", "ForEachRow", "NClick", "NTypeInto", "ReadRange">>

ActivityDoc(layout, kinds, logs, timeout) ==
    LET chosen(k) == k \in kinds
        tags == SelectSeq(KindOrder, chosen)
        attrib(tag) == IF timeout /\ tag \in {"NClick", "NTypeInto"}
                       THEN << <<"DisplayName", tag>>, <<"TimeoutMS", "3000">> >>
                       ELSE << <<"DisplayName", tag>> >>
    IN  Xaml(layout, <<Elem(0, Q(layout, "Activity"), <<>>, "")>>
                     \o [k \in 1..Len(tags) |-> Elem(1, Q(layout, tags[k]), attrib(tags[k]), "")]
                     \o [k \in 1..logs |-> Elem(1, Q(layout, "LogMessage"), <<>>, "")])

ActivityDocs(layouts) ==
    {ActivityDoc(layout, kinds, logs, timeout) :
        layout \in layouts, kinds \in SUBSET Range(KindOrder), logs \in 0..MaxLogs,
        timeout \in BOOLEAN}

\* A root over one NClick named  name  and, unless  after  is "", one
\* element of the tag  after  that follows it.
ClickNames == {"Submit", "Calculate total", "Open"}
ClickFollowers == {"", "Delay", "Assign"}

ClickDoc(layout, name, after) ==
    Xaml(layout, <<Elem(0, Q(layout, "Activity"), <<>>, ""),
                   Elem(1, Q(layout, "NClick"), << <<"DisplayName", name>> >>, "")>>
                 \o (IF after = "" THEN <<>> ELSE <<Elem(1, Q(layout, after), <<>>, "")>>))

ClickDocs(layouts) ==
    {ClickDoc(layout, name, after) : layout \in layouts, name \in ClickNames, after \in ClickFollowers}

\* A root over one TryCatch with a Try that holds an Assign and with one
\* Catch.  The Catch has no ActivityAction ("noaction"), an ActivityAction
\* without children ("nochild"), with one childless Sequence ("wrapper"), with
\* one LogMessage alone ("bare"), with a Sequence that holds the LogMessage
\* ("wrapped"), or with a Sequence that holds a second TryCatch whose Catch
\* holds the LogMessage ("nested").  The LogMessage has the Level  level,
\* none for "".
CatchBodies == {"noaction", "nochild", "wrapper", "bare", "wrapped", "nested"}
LogLevels == {"", "Info", "Trace", "Warn", "Error", "Information"}

LogElem(layout, parent, level) ==
    Elem(parent, Q(layout, "LogMessage"),
         IF level = "" THEN <<>> ELSE << <<"Level", level>> >>, "")

\* A TryCatch under  parent  whose first element has the index  b + 1: its
\* Try with an Assign, its Catches, one Catch.
TryCatchHead(layout, parent, b) ==
    <<Elem(parent, Q(layout, "TryCatch"), <<>>, ""),
      Elem(b + 1, Q(layout, "TryCatch.Try"), <<>>, ""),
      Elem(b + 2, Q(layout, "Assign"), <<>>, ""),
      Elem(b + 1, Q(layout, "TryCatch.Catches"), <<>>, ""),
      Elem(b + 4, Q(layout, "Catch"), <<>>, "")>>

CatchDoc(layout, body, level) ==
    LET action(b) == Elem(b, Q(layout, "ActivityAction"), <<>>, "")
        sequence(b) == Elem(b, Q(layout, "Sequence"), <<>>, "")
        inside ==
            CASE body = "noaction" -> <<>>
              [] body = "nochild" -> <<action(6)>>
              [] body = "wrapper" -> <<action(6), sequence(7)>>
              [] body = "bare" -> <<action(6), LogElem(layout, 7, level)>>
              [] body = "wrapped" -> <<action(6), sequence(7), LogElem(layout, 8, level)>>
              [] OTHER -> <<action(6), sequence(7)>> \o TryCatchHead(layout, 8, 8)
                          \o <<action(13), sequence(14), LogElem(layout, 15, level)>>
    IN  Xaml(layout, <<Elem(0, Q(layout, "Activity"), <<>>, "")>>
                     \o TryCatchHead(layout, 1, 1) \o inside)

CatchDocs(layouts) ==
    {CatchDoc(layout, body, level) : layout \in layouts, body \in CatchBodies, level \in LogLevels}

\* A file that is not well-formed XML.
MalformedXaml == [wellFormed |-> FALSE, nsDecls |-> <<>>, elems |-> <<>>]

\* The metadata files: no path given, a path to no file, to a file that
\* cannot be read, to a file that is not JSON, and to JSON values.
Sidecar(kind, value) == [path |-> TRUE, kind |-> kind, value |-> value]

JsonValues ==
    {JsonObject(<<>>),
     JsonObject(<< <<"name", JsonString("Invoices")>> >>),
     JsonObject(<< <<"dependencies", JsonObject(<< <<"UiPath.Excel.Activities", JsonString("[2.9.3]")>> >>)>> >>),
     JsonObject(<< <<"name", JsonString("Invoices")>>,
                   <<"dependencies", JsonObject(<< <<"UiPath.Excel.Activities", JsonString("[2.9.3]")>> >>)>> >>),
     JsonArray(<<>>), JsonArray(<<JsonNumber(1)>>), JsonString("Invoices"), JsonNumber(0), JsonNull}

Sidecars ==
    {Sidecar(kind, JsonNull) : kind \in {"missing", "unreadable", "malformed"}}
    \cup {Sidecar("json", value) : value \in JsonValues}

-----------------------------------------------------------------------------
(* analyze_workflow and WorkflowAnalyzer.analyze on a workflow file *)

Init ==
    /\ argv = NoArgv
    /\ \/ /\ xamlFile \in FlatDocs({"declared"}, MaxFlat) \cup VarDocs(Layouts, MaxVars)
                          \cup UrlDocs(Layouts) \cup ChildlessDocs(Layouts)
                          \cup RuleDocs(Layouts) \cup ActivityDocs(Layouts)
                          \cup CatchDocs(Layouts) \cup {MalformedXaml}
          /\ jsonFile = NoJson
       \/ /\ xamlFile \in FlatDocs({"declared"}, 1) \cup ChildlessDocs({"declared"})
          /\ jsonFile \in Sidecars
    /\ pc = "a_start"
    /\ raw_content = ""
    /\ root = None
    /\ config = JsonObject(<<>>)
    /\ analysis = None
    /\ namespaces = <<>>
    /\ issues = <<>>
    /\ urls = {}
    /\ db_connections = {}
    /\ used_activities = {}
    /\ report = None
    /\ observed = <<>>

Next ==
    \/ XamlParse
    \/ JsonParse
    \/ AnalyzeBuild
    \/ GenerateProseSummaryStep
    \/ DetectIssuesStep
    \/ GenerateRecommendationsStep
    \/ CalculateHealthScoreStep
    \/ GenerateJsonReport

Spec == Init /\ [][Next]_vars

-----------------------------------------------------------------------------
(* UiPathXAMLAnalyzer(xaml_path).analyze() on a workflow file *)

InitMain ==
    /\ argv = NoArgv
    /\ xamlFile \in ChainDocs(Layouts, MaxChain) \cup DeepDocs(Layouts) \cup PathDocs(Layouts)
                    \cup UrlDocs(Layouts) \cup ChildlessDocs(Layouts) \cup ClickDocs(Layouts)
                    \cup {MalformedXaml}
    /\ jsonFile = NoJson
    /\ pc = "m_start"
    /\ raw_content = ""
    /\ root = None
    /\ config = JsonObject(<<>>)
    /\ analysis = None
    /\ namespaces = <<>>
    /\ issues = <<>>
    /\ urls = {}
    /\ db_connections = {}
    /\ used_activities = {}
    /\ report = None
    /\ observed = <<>>

NextMain ==
    \/ LoadXaml
    \/ CheckErrorHandling
    \/ CheckExcelOperations
    \/ CheckBrowserOperations
    \/ CheckLoops
    \/ CheckSelectors
    \/ CheckDelays
    \/ CheckLogging
    \/ CheckFilePaths
    \/ CheckVariablesStep
    \/ CheckPerformance
    \/ ExtractResources

SpecMain == InitMain /\ [][NextMain]_vars

-----------------------------------------------------------------------------
(* Either analyzer on a workflow file *)

InitAll == Init \/ InitMain

NextAll == Next \/ NextMain

SpecAll == InitAll /\ [][NextAll]_vars

-----------------------------------------------------------------------------
(* analyze() called again on the same analyzer object *)

\* The number of calls of analyze() on one object.
MaxCalls == 2

\* UiPathXAMLAnalyzer.analyze has returned: the caller reads self.issues and,
\* for another call, enters analyze() again.  Nothing of the object is reset:
\* issues, namespaces and the resource sets are assigned in __init__ only.
ReturnFromAnalyze ==
    /\ pc \in {"m_done", "m_failed"}
    /\ Len(observed) < MaxCalls
    /\ observed' = Append(observed, issues)
    /\ pc' = IF Len(observed) + 1 < MaxCalls THEN "m_start" ELSE "m_returned"
    /\ UNCHANGED <<files, raw_content, root, config, analysis, analyzerSets, report>>

\* WorkflowAnalyzer.analyze has returned self.analysis: the caller reads its
\* issues and, for another call, enters analyze() again, which assigns a new
\* WorkflowAnalysis to self.analysis.
ReturnAnalysis ==
    /\ pc = "a_done"
    /\ Len(observed) < MaxCalls
    /\ observed' = Append(observed, analysis.issues)
    /\ pc' = IF Len(observed) + 1 < MaxCalls THEN "a_json" ELSE "a_returned"
    /\ UNCHANGED <<files, raw_content, root, config, analysis, analyzerSets, report>>

NextAgain == NextAll \/ ReturnFromAnalyze \/ ReturnAnalysis

SpecAgain == InitAll /\ [][NextAgain]_vars

-----------------------------------------------------------------------------
(* analyze_workflow.py: the command-line wrapper *)

\* def analyze_workflow(xaml_path): one positional parameter
AnalyzeWorkflowParams == 1

\* analyze_workflow(args.xaml, args.json): the arguments main() passes
CallArguments == 2

\* Binding the arguments of the call raises TypeError when the counts differ.
CallRaisesTypeError == CallArguments # AnalyzeWorkflowParams

\* parser.parse_args(): xaml and json are both required positionals;
\* argparse ends the process with status 2 when one is missing.
ParseArgs ==
    /\ pc = "c_start"
    /\ pc' = IF argv.jsonGiven THEN "c_parsed" ELSE "c_exit_2"
    /\ UNCHANGED <<files, observed, raw_content, root, config, analysis, analyzerSets, report>>

\* main(): the two Path(...).exists() tests, each ending in sys.exit(1)
CheckFilesExist ==
    /\ pc = "c_parsed"
    /\ pc' = IF ~argv.xamlExists THEN "c_exit_1"
             ELSE IF jsonFile.kind = "missing" THEN "c_exit_1"
             ELSE "c_try"
    /\ UNCHANGED <<files, observed, raw_content, root, config, analysis, analyzerSets, report>>

\* main(): the try block.  Any exception ends in sys.exit(1); falling off
\* the end of main() ends the process with status 0.
RunAnalysis ==
    /\ pc = "c_try"
    /\ pc' = IF CallRaisesTypeError THEN "c_exit_1"
             ELSE IF ~xamlFile.wellFormed THEN "c_exit_1"
             ELSE "c_exit_0"
    /\ UNCHANGED <<files, observed, raw_content, root, config, analysis, analyzerSets, report>>

InitCli ==
    /\ xamlFile \in FlatDocs(Layouts, 2) \cup ChildlessDocs(Layouts) \cup {MalformedXaml}
    /\ jsonFile \in Sidecars
    /\ argv \in [xamlExists : BOOLEAN, jsonGiven : BOOLEAN, output : BOOLEAN]
    /\ pc = "c_start"
    /\ raw_content = ""
    /\ root = None
    /\ config = JsonObject(<<>>)
    /\ analysis = None
    /\ namespaces = <<>>
    /\ issues = <<>>
    /\ urls = {}
    /\ db_connections = {}
    /\ used_activities = {}
    /\ report = None
    /\ observed = <<>>

NextCli == ParseArgs \/ CheckFilesExist \/ RunAnalysis

SpecCli == InitCli /\ [][NextCli]_vars

-----------------------------------------------------------------------------
(* Properties of the two analyzers *)


\* C3: after URL extraction every string of the URL set starts with http://
\* or https://, for XAMLParser.get_urls (analysis.urls) and for
\* UiPathXAMLAnalyzer.extract_urls (self.urls), values of attributes named
\* like Url or Uri included.
C3_UrlsAreHttp ==
    /\ pc = "m_done" => \A u \in urls : IsHttp(u)
    /\ pc \in {"a_built", "a_summarised", "a_detected", "a_recommended", "a_done", "a_reported"}
          => \A u \in analysis.urls : IsHttp(u)

\* The elements below the root: the activity elements of the document.
Below(t) == {j \in 1..Len(t) : j # 1}

HasTag(t, local) == \E j \in 1..Len(t) : LocalName(t[j].tag) = local

\* C4: a well-formed document with no TryCatch element and more than 5
\* activity elements, of any tag, gets the Missing-error-handling issue with
\* severity High or Critical from _detect_issues.
C4_MissingHandlerRaised ==
    (/\ pc \in {"a_detected", "a_recommended", "a_done"}
     /\ ~HasTag(root, "TryCatch")
     /\ Cardinality(Below(root)) > 5)
    => \E k \in 1..Len(analysis.issues) :
          /\ analysis.issues[k].title = MissingHandlerIssue.title
          /\ analysis.issues[k].severity \in {"High", "Critical"}

\* Some ForEachRow has an ExcelApplicationCard below it, at any depth and in
\* any namespace.
ScopeInLoop(t) ==
    \E i \in 1..Len(t), j \in 1..Len(t) :
        /\ LocalName(t[i].tag) = "ForEachRow"
        /\ LocalName(t[j].tag) = "ExcelApplicationCard"
        /\ IsDescendant(t, i, j)

ExcelChecked ==
    pc \in {"m_browser", "m_loops", "m_selectors", "m_delays", "m_logging", "m_file_paths",
            "m_variables", "m_performance", "m_resources", "m_done"}

\* C5: once check_excel_operations has run on a document in which some
\* ForEachRow has an ExcelApplicationCard as a descendant, at any depth and in
\* any namespace, the issue list holds the Critical Scope-in-loop issue.
C5_ScopeInLoopRaised ==
    ExcelChecked /\ ScopeInLoop(root) =>
        \E k \in 1..Len(issues) :
            /\ issues[k].description = ScopeInLoopFinding.description
            /\ issues[k].severity = "CRITICAL"

\* The names that the Variable elements of the document declare.
DeclaredNames(t) ==
    {Get(t[j], "Name", "") : j \in {j \in 1..Len(t) : LocalName(t[j].tag) = "Variable" /\ HasAttr(t[j], "Name")}}

\* The name occurs as a word in an attribute value or a text of the document
\* other than the Name of a Variable element.
ReferencedElsewhere(t, name) ==
    \E j \in 1..Len(t) :
        \/ WordOccurrences(t[j].text, name) > 0
        \/ \E a \in 1..Len(t[j].attrib) :
              /\ ~(LocalName(t[j].tag) = "Variable" /\ t[j].attrib[a][1] = "Name")
              /\ WordOccurrences(t[j].attrib[a][2], name) > 0

UnusedIssuesFor(iss, name) ==
    Cardinality({k \in 1..Len(iss) :
                    /\ iss[k].title = "Kullanilmayan Degisken"
                    /\ StartsWith(iss[k].description, "'" \o name \o "' (")})

\* C6: every declared variable whose name is referenced nowhere in the
\* document besides its declaration gets exactly one Unused-variable issue,
\* whatever the name (Name and Variable included) and in however many scopes
\* it is declared.
C6_OneUnusedIssuePerName ==
    pc \in {"a_detected", "a_recommended", "a_done"} =>
        \A name \in DeclaredNames(root) :
            ~ReferencedElsewhere(root, name) => UnusedIssuesFor(analysis.issues, name) = 1

\* The analyses that differ from  a  at most in the prose summary, the urls
\* and the components.
Variants(a) ==
    {[a EXCEPT !.prose_summary = p, !.urls = u, !.components = c] :
        p \in {a.prose_summary, ""}, u \in {a.urls, {}}, c \in {a.components, {}}}

\* C7: the JSON report determines the analysis it was rendered from on every
\* public field (a deserializer can reconstruct it): no analysis with another
\* prose summary, other urls or other components renders to the same report.
C7_ReportRoundTrip ==
    pc = "a_reported" =>
        \A other \in Variants(analysis) :
            JsonReport(other, report.metadata.generated) = report => other = analysis

\* One ForEachRow wrapping one ExcelApplicationCard wrapping one WriteCell
\* with AutoIncrementRow="True", in any namespace; no TryCatch, no LogMessage.
LoopScenario(f) ==
    /\ f.wellFormed
    /\ Len(f.elems) = 4
    /\ [k \in 2..4 |-> LocalName(f.elems[k].tag)]
          = [k \in 2..4 |-> <<"", "ForEachRow", "ExcelApplicationCard", "WriteCell">>[k]]
    /\ [k \in 2..4 |-> f.elems[k].parent] = [k \in 2..4 |-> k - 1]
    /\ Get(f.elems[4], "AutoIncrementRow", "") = "True"

\* C8: after analyze() on that document the issue list holds the six
\* issues missing-error-handling, scope-in-loop, risky-auto-increment,
\* loop-without-trycatch, loop-under-logged and no-logging.
C8_SixIssues ==
    pc \in {"m_done", "m_failed", "m_raised"} /\ LoopScenario(xamlFile) =>
        {NoTryCatchFinding.description, ScopeInLoopFinding.description,
         AutoIncrementFinding.description, LoopWithoutTryCatchFinding.description,
         LoopUnderLoggedFinding.description, NoLogFinding.description}
            \subseteq {issues[k].description : k \in 1..Len(issues)}

\* A document that is a root element without children.
Childless(f) == f.wellFormed /\ Len(f.elems) = 1

\* C9: a root without children has no activity, no variable, no issue and
\* health score 100 in the analysis of WorkflowAnalyzer; in
\* UiPathXAMLAnalyzer its maximum depth is 0 and check_performance raises no
\* nesting-depth issue.
C9_ChildlessRoot ==
    /\ pc = "a_done" /\ Childless(xamlFile) =>
          /\ analysis.activities = <<>>
          /\ analysis.variables = <<>>
          /\ analysis.issues = <<>>
          /\ analysis.overall_health_score = 100
    /\ pc \in {"m_resources", "m_done"} /\ Childless(xamlFile) =>
          /\ CalculateMaxDepth(root, 1, 0) = 0
          /\ \A k \in 1..Len(issues) : issues[k].category # "Performance"

\* C9 witness: the analysis of a childless root whose tag is an activity tag.
C9_Witness ==
    /\ pc = "a_done"
    /\ Childless(xamlFile)
    /\ LocalName(root[1].tag) = "Sequence"
    /\ HasAttr(root[1], "DisplayName")
    /\ analysis.overall_health_score = 100

\* C10: with a metadata file that is missing, unreadable or not JSON, nothing
\* raises on a well-formed workflow file, and the finished analysis has the
\* name "Unknown", the dependencies {} and every other field as computed
\* from the workflow file with no metadata.
C10_SidecarOptional ==
    jsonFile.path /\ jsonFile.kind \in {"missing", "unreadable", "malformed"} /\ xamlFile.wellFormed =>
        /\ pc # "a_raised"
        /\ pc = "a_done" =>
              /\ analysis.workflow_name = "Unknown"
              /\ analysis.dependencies = JsonObject(<<>>)
              /\ analysis.workflow_purpose = DetectWorkflowPurpose(root, JsonObject(<<>>))
              /\ analysis.activities = ExtractActivities(root)
              /\ analysis.variables = ExtractVariables(root)
              /\ analysis.issues = DetectIssues(root, raw_content)
              /\ analysis.recommendations = GenerateRecommendations(root)
              /\ analysis.urls = GetUrls(root)
              /\ analysis.components = TypesOf(ExtractActivities(root))
              /\ analysis.overall_health_score = CalculateHealthScore(DetectIssues(root, raw_content))
              /\ \E order \in Orderings(SummaryActions(TypesOf(ExtractActivities(root)))) :
                    analysis.prose_summary = GenerateProseSummary(ExtractActivities(root), order)

\* C10 witness: a finished analysis beside a metadata file that is not JSON.
C10_Witness ==
    /\ pc = "a_done"
    /\ jsonFile.path
    /\ jsonFile.kind = "malformed"
    /\ Len(root) > 1
    /\ analysis.workflow_name = "Unknown"

\* C11: on a workflow file that is not well-formed XML analyze_workflow
\* raises right after the failed parse: no later step runs, and no analysis
\* and no report exists for the caller.
C11_MalformedAborts ==
    ~xamlFile.wellFormed /\ pc # "a_start" =>
        /\ pc = "a_raised"
        /\ root = None
        /\ analysis = None
        /\ report = None
        /\ config = JsonObject(<<>>)

\* C11 witness: the run on the malformed file has raised.
C11_Witness ==
    /\ ~xamlFile.wellFormed
    /\ pc = "a_raised"
    /\ raw_content = FileText(xamlFile)

\* C12: on a well-formed workflow file, analysed without a metadata file, no
\* step of either analyzer raises or gives up: analyze_workflow ends with an
\* issue list and a health score, and UiPathXAMLAnalyzer.analyze runs every
\* check and ends with its issue list.
C12_EveryRuleCompletes ==
    xamlFile.wellFormed /\ ~jsonFile.path =>
        /\ pc \notin {"a_raised", "m_raised", "m_failed"}
        /\ pc = "a_done" =>
              /\ analysis.issues = DetectIssues(root, raw_content)
              /\ analysis.overall_health_score \in 0..100
        /\ pc = "m_done" =>
              issues = ErrorHandlingFindings(root, namespaces) \o ExcelFindings(root, namespaces)
                       \o BrowserFindings(root, namespaces) \o LoopsFindings(root, namespaces)
                       \o SelectorsFindings(root, namespaces) \o DelaysFindings(root, namespaces)
                       \o LoggingFindings(root, namespaces) \o FilePathsFindings(root)
                       \o CheckVariables(root, namespaces).findings \o PerformanceFindings(root)

\* The process of analyze_workflow.py has ended.
Exited == pc \in {"c_exit_0", "c_exit_1", "c_exit_2"}

\* C13: the command-line wrapper ends with exit code 0 whenever the workflow
\* file exists and is well-formed (the metadata path existing, or omitted),
\* and with a non-zero code when the workflow file does not exist or is not
\* well-formed.
C13_ExitCodes ==
    Exited =>
        /\ (/\ argv.xamlExists
            /\ xamlFile.wellFormed
            /\ ~argv.jsonGiven \/ jsonFile.kind # "missing") => pc = "c_exit_0"
        /\ ~argv.xamlExists \/ ~xamlFile.wellFormed => pc # "c_exit_0"

Analysed == pc \in {"a_built", "a_summarised", "a_detected", "a_recommended", "a_done", "a_reported"}

\* C14: get_activities returns exactly one activity per element of the
\* document, in document order, whatever the tag; the type is the local tag
\* name and the name is the DisplayName attribute, "Unknown" when absent.
C14_OneActivityPerElement ==
    Analysed =>
        /\ GetActivities(root) =
              [k \in 1..Len(root) |->
                  [type |-> LocalName(root[k].tag),
                   name |-> Get(root[k], "DisplayName", "Unknown"),
                   attributes |-> root[k].attrib]]
        /\ [k \in 1..Len(analysis.activities) |->
               <<analysis.activities[k].type, analysis.activities[k].name>>]
              = [k \in 1..Len(root) |->
                   <<LocalName(root[k].tag), Get(root[k], "DisplayName", "Unknown")>>]

\* load_xaml has returned True and the checks of analyze() run.
\* load_xaml() has returned True: the checks of main.py run on the tree.
Loaded ==
    pc \in {"m_error_handling", "m_excel", "m_browser", "m_loops", "m_selectors", "m_delays",
            "m_logging", "m_file_paths", "m_variables", "m_performance", "m_resources",
            "m_done", "m_raised"}

\* C15: for every local tag name, find_all_elements returns every descendant
\* of the root with that local name, in whatever namespace or in none, and
\* the empty list when there is none.
C15_FindsInEveryNamespace ==
    Loaded =>
        \A j \in 1..Len(root) :
            LET tag == LocalName(root[j].tag)
            IN  Range(FindAllElements(root, namespaces, tag))
                   = Range(FindAllBelowAnyNs(root, 1, tag))

\* The rule of _detect_issues that produces an issue, by its position in the
\* order of the calls: the missing handler, the log levels in Catch blocks,
\* the empty blocks, the unused variables.
RuleRank(issue) ==
    IF issue.title = "Error Handler Eksikligi" THEN 1
    ELSE IF issue.title = "Hatali Loglama Seviyesi" THEN 2
    ELSE IF issue.category = "Logic Error" THEN 3
    ELSE 4

\* The outputs of the checks of UiPathXAMLAnalyzer.analyze, in call order.
RuleOutputs(t, nss) ==
    <<ErrorHandlingFindings(t, nss), ExcelFindings(t, nss), BrowserFindings(t, nss),
      LoopsFindings(t, nss), SelectorsFindings(t, nss), DelaysFindings(t, nss),
      LoggingFindings(t, nss), FilePathsFindings(t), CheckVariables(t, nss).findings,
      PerformanceFindings(t)>>

\* The number of checks that have returned when analyze() is at  at.
RulesRun(at) ==
    CASE at = "m_error_handling" -> 0
      [] at = "m_excel" -> 1
      [] at = "m_browser" -> 2
      [] at = "m_loops" -> 3
      [] at = "m_selectors" -> 4
      [] at = "m_delays" -> 5
      [] at = "m_logging" -> 6
      [] at = "m_file_paths" -> 7
      [] at = "m_variables" -> 8
      [] at = "m_raised" -> 8
      [] at = "m_performance" -> 9
      [] OTHER -> 10

Detected == pc \in {"a_detected", "a_recommended", "a_done", "a_reported"}

PurposeHeader == "Proje: " \o ProjectName(config) \o "\n"

WebMatched == TypesOf(analysis.activities) \cap {"NClick", "NTypeInto", "NGetText"} # {}
SpreadsheetMatched == TypesOf(analysis.activities) \cap {"ReadRange", "WriteCell"} # {}
BulkMatched == "ForEachRow" \in TypesOf(analysis.activities)

\* C17: the purpose text is the header followed by one label for each
\* category the activity types match (web automation, spreadsheet
\* processing, bulk processing), and by a default label when none matches.
C17_PurposeLabels ==
    Analysed =>
        IF WebMatched \/ SpreadsheetMatched \/ BulkMatched
        THEN analysis.workflow_purpose
                = PurposeHeader
                  \o (IF WebMatched THEN "- Web Automation\n" ELSE "")
                  \o (IF SpreadsheetMatched THEN "- Excel Isleme\n" ELSE "")
                  \o (IF BulkMatched THEN "- Toplu Isleme\n" ELSE "")
        ELSE /\ StartsWith(analysis.workflow_purpose, PurposeHeader)
             /\ Len(analysis.workflow_purpose) > Len(PurposeHeader)

\* analyze() has stored the prose summary.
Summarised == pc \in {"a_summarised", "a_detected", "a_recommended", "a_done", "a_reported"}

\* C18: for every activity list, the empty one included, the prose summary
\* ends with the sentence that calls it an automatic inference.
C18_EndsWithDisclaimer ==
    Summarised => EndsWith(analysis.prose_summary, Disclaimer)

\* C19: the prose summary is determined by the set of activity types: it is
\* the same string in whatever order the set of action phrases is enumerated.
C19_SummaryOfTypesAlone ==
    Summarised =>
        \A order \in Orderings(SummaryActions(TypesOf(analysis.activities))) :
            analysis.prose_summary = GenerateProseSummary(analysis.activities, order)

\* analyze() has stored the recommendations.
Recommended == pc \in {"a_recommended", "a_done", "a_reported"}

\* The conditions of _generate_recommendations, on the extracted activities.
HandlerMissing ==
    /\ "TryCatch" \notin TypesOf(analysis.activities)
    /\ Len(analysis.activities) > ActivityThreshold
FewLogMessages ==
    LET isLog(a) == a.type = "LogMessage"
    IN  Len(SelectSeq(analysis.activities, isLog)) < LogThreshold
UiActivityPresent == TypesOf(analysis.activities) \cap UiActivityTypes # {}

\* The document with one more element under the root, a Variable "spare"
\* that nothing reads: one more issue, the same activities unless the root
\* was childless.
WithUnusedVariable(t) == t \o <<Elem(1, "Variable", << <<"Name", "spare">> >>, "")>>
TextWithUnusedVariable == FileText([xamlFile EXCEPT !.elems = WithUnusedVariable(root)])

\* C20: the recommendations are never empty, they are the fallback message
\* alone exactly when no condition triggers (no TryCatch among more than 5
\* activities; fewer than 3 LogMessage; a UI activity present), and they are
\* the same for every document with the same extracted activities, whatever
\* issues it has.
C20_RecommendationsFromActivities ==
    Recommended =>
        /\ analysis.recommendations # <<>>
        /\ analysis.recommendations = <<FallbackRecommendation>>
              <=> ~(HandlerMissing \/ FewLogMessages \/ UiActivityPresent)
        /\ GetActivities(WithUnusedVariable(root)) = GetActivities(root)
              => /\ DetectIssues(WithUnusedVariable(root), TextWithUnusedVariable) # analysis.issues
                 /\ GenerateRecommendations(WithUnusedVariable(root)) = analysis.recommendations

\* A run that returns the fallback message for a document with issues.
C20_Witness ==
    /\ Recommended
    /\ analysis.recommendations = <<FallbackRecommendation>>
    /\ analysis.issues # <<>>

\* check_browser_operations has returned.
BrowserChecked ==
    pc \in {"m_loops", "m_selectors", "m_delays", "m_logging", "m_file_paths",
            "m_variables", "m_performance", "m_resources", "m_done", "m_raised"}

\* The NClick j is named after a calculate or submit button.
IsSubmitClick(t, j) ==
    /\ LocalName(t[j].tag) = "NClick"
    /\ \/ Contains(Lower(Get(t[j], "DisplayName", "")), "calculate")
       \/ Contains(Lower(Get(t[j], "DisplayName", "")), "submit")

\* The element after j among the children of its parent, 0 for none.
NextSibling(t, j) ==
    LET kids == ChildrenOf(t, t[j].parent)
    IN  IF IndexIn(kids, j) = Len(kids) THEN 0 ELSE kids[IndexIn(kids, j) + 1]

\* C21: once check_browser_operations has run, the issue list holds the
\* missing-delay warning of an NClick named after a calculate or submit
\* button exactly when the element after it is not a Delay, the case of no
\* element after it included.
C21_ClickWithoutDelay ==
    BrowserChecked =>
        \A j \in 2..Len(root) :
            IsSubmitClick(root, j) =>
                (NoDelayAfterFinding(Get(root[j], "DisplayName", "")) \in Range(issues)
                    <=> \/ NextSibling(root, j) = 0
                        \/ LocalName(root[NextSibling(root, j)].tag) # "Delay")

\* The elements named Sequence or Flowchart, in any namespace.
Containers(t) ==
    {j \in 1..Len(t) : LocalName(t[j].tag) \in {"Sequence", "Flowchart"}}

\* The condition under which the missing error handling may be reported.
HandlerMayBeMissing(t) ==
    /\ ~HasTag(t, "TryCatch")
    /\ Containers(t) # {} \/ Cardinality(Below(t)) > ActivityThreshold

\* C22: the Missing-error-handling issue is raised only for a document with
\* no TryCatch element that also has a Sequence or Flowchart or more than 5
\* activities, by check_error_handling and by _detect_issues alike.
C22_MissingHandlerOnlyWhenDue ==
    /\ Loaded /\ pc # "m_error_handling" /\ NoTryCatchFinding \in Range(issues)
          => HandlerMayBeMissing(root)
    /\ Detected /\ MissingHandlerIssue \in Range(analysis.issues)
          => HandlerMayBeMissing(root)

\* The element c is a Catch block of a TryCatch.
IsCatchBlock(t, c) ==
    /\ LocalName(t[c].tag) = "Catch"
    /\ t[c].parent # 0
    /\ LocalName(t[t[c].parent].tag) = "TryCatch.Catches"
    /\ t[t[c].parent].parent # 0
    /\ LocalName(t[t[t[c].parent].parent].tag) = "TryCatch"

\* The LogMessage elements inside a Catch block.
LogsInCatch(t) ==
    {j \in 1..Len(t) :
        /\ LocalName(t[j].tag) = "LogMessage"
        /\ \E c \in 1..Len(t) : IsCatchBlock(t, c) /\ IsDescendant(t, c, j)}

\* The Level is absent, "Info" or "Trace".
LevelTooLow(e) == ~HasAttr(e, "Level") \/ Get(e, "Level", "") \in {"Info", "Trace"}

BadLevelIssues ==
    LET isBadLevel(issue) == issue.title = "Hatali Loglama Seviyesi" /\ issue.severity = "Medium"
    IN  SelectSeq(analysis.issues, isBadLevel)

\* C23: a LogMessage inside a Catch block raises the Medium issue of the
\* wrong log level exactly when its Level is absent, "Info" or "Trace"; any
\* other Level, one that only contains Info or Trace included, raises none.
C23_LevelAbsentInfoOrTrace ==
    Detected =>
        (BadLevelIssues # <<>>
            <=> \E j \in LogsInCatch(root) : LevelTooLow(root[j]))

\* The containers that wrap the activities of a body.
Wrappers == {"Sequence", "Flowchart"}

\* The action body of the Catch block c holds no activity: there is no
\* action element, it has no children, or its one child is a childless
\* wrapper.
CatchBodyEmpty(t, c) ==
    LET action == FindChildAnyNs(t, c, "ActivityAction")
        kids == ChildrenOf(t, action)
    IN  \/ action = 0
        \/ Len(kids) = 0
        \/ /\ Len(kids) = 1
           /\ LocalName(t[kids[1]].tag) \in Wrappers
           /\ Len(ChildrenOf(t, kids[1])) = 0

EmptyCatchIssues ==
    LET isEmptyCatch(issue) == issue.title = "Bos Catch Blogu" /\ issue.severity = "High"
    IN  SelectSeq(analysis.issues, isEmptyCatch)

\* C24: _find_empty_blocks raises one High Empty-Catch issue for each Catch
\* block whose action body is empty, and none for a Catch block whose action
\* body holds an activity.
C24_EmptyCatchBlocks ==
    Detected =>
        Len(EmptyCatchIssues)
           = Cardinality({c \in 1..Len(root) : IsCatchBlock(root, c) /\ CatchBodyEmpty(root, c)})

\* The elements below the root with the local name  name.
Named(t, name) == {j \in 2..Len(t) : LocalName(t[j].tag) = name}

\* How often the element j occurs in a list of elements.
Occurrences(found, j) == Cardinality({k \in 1..Len(found) : found[k] = j})

\* C25: the lookups of main.py return each matching element at most once, so
\* that a rule that counts the elements of a name counts each of them once.
C25_EachElementOnce ==
    Loaded =>
        \A j \in 2..Len(root) :
            LET name == LocalName(root[j].tag)
            IN  /\ Occurrences(FindAllElements(root, namespaces, name), j) <= 1
                /\ Occurrences(FindNestedElements(root, namespaces, 1, <<name>>), j) <= 1
                /\ Len(FindAllElements(root, namespaces, name)) = Cardinality(Named(root, name))

\* The variable declarations of the document: the Variable elements that
\* carry a Name.
Declarations(t) ==
    {j \in 1..Len(t) : LocalName(t[j].tag) = "Variable" /\ HasAttr(t[j], "Name")}

UnusedVariableIssues ==
    LET isUnused(issue) == issue.title = "Kullanilmayan Degisken"
    IN  SelectSeq(analysis.issues, isUnused)

\* C26: the variables of the report are variable declarations of the
\* document, at most one entry for each, and there are no more
\* Unused-variable issues than declarations: an element such as
\* Sequence.Variables adds neither an entry nor an issue.
C26_OnlyDeclarationsAreVariables ==
    Detected =>
        /\ Len(analysis.variables) <= Cardinality(Declarations(root))
        /\ Len(UnusedVariableIssues) <= Cardinality(Declarations(root))

\* The LogMessage elements inside a Catch block whose Level is absent,
\* "Info" or "Trace".
OffendingLogs(t) == {j \in LogsInCatch(t) : LevelTooLow(t[j])}

\* C27: the offending LogMessage elements of a document produce one issue of
\* the wrong log level each, also when the Catch block that holds one lies
\* inside the Catch block of an outer TryCatch.
C27_OneIssuePerOffendingLog ==
    Detected /\ OffendingLogs(root) # {} =>
        Len(BadLevelIssues) = Cardinality(OffendingLogs(root))

\* C28: analyze() called again on the same object for the same document
\* gives the issue list of the first call, the same issues in the same
\* order, for either analyzer.
C28_SecondCallSameIssues ==
    \A i, j \in 1..Len(observed) : observed[i] = observed[j]

\* C29: with a metadata file that holds valid JSON of any top-level shape,
\* parse, get_project_info and get_dependencies do not raise and analyze()
\* completes; when the value is not an object the name is "Unknown" and
\* the dependencies are empty.
C29_AnyJsonShape ==
    xamlFile.wellFormed /\ jsonFile.path /\ jsonFile.kind = "json" =>
        /\ pc # "a_raised"
        /\ Analysed /\ jsonFile.value.type # "object" =>
              /\ analysis.workflow_name = "Unknown"
              /\ analysis.dependencies = JsonObject(<<>>)

\* The attribute values of the root that start with http:// or https://.
RootUrls(t) == {t[1].attrib[a][2] : a \in {a \in 1..Len(t[1].attrib) : IsHttp(t[1].attrib[a][2])}}

\* C30: for a parsed document whose root has no children the extractors
\* still look at the root: its http(s) attribute values are among the urls,
\* a root with an activity tag is an activity and a root whose tag names a
\* variable is a variable of the analysis.
C30_RootWithoutChildrenExtracted ==
    Analysed /\ Childless(xamlFile) =>
        /\ RootUrls(root) \subseteq analysis.urls
        /\ IsActivityTag(LocalName(root[1].tag)) => Len(analysis.activities) = 1
        /\ Contains(root[1].tag, "Variable") => Len(analysis.variables) = 1
====
